---- MODULE Spec2Model ----
(***************************************************************************)
(* The aircraft tracker of vrclivetraffic (src/src/tracker.rs) as a state  *)
(* machine: the track map, the callsign index, the delay buffer and the    *)
(* flight-plan request queue, driven by Tracker::step; the worker threads  *)
(* of the request pools (request.rs); and the session loop of main.rs with *)
(* its clients, timers and broadcasts.                                     *)
(*                                                                         *)
(* Strings the code inspects character by character (callsigns) are tuples *)
(* of one-character strings; opaque strings (hex ids, model codes) are     *)
(* TLA+ strings.                                                           *)
(***************************************************************************)
EXTENDS Integers, Sequences, FiniteSets, TLC

VARIABLES
    buffer,         \* Tracker.buffer: FIFO of fetched batches
    is_buffering,   \* Tracker.is_buffering
    tracking,       \* Tracker.tracking: hex -> TrackData
    callsign_map,   \* Tracker.callsign_map: callsign -> hex
    fp_jobs,        \* FlightAware.flightplans job deque (requests not yet taken)
    fp_working,     \* the requests the worker threads have taken and not answered
    fp_results,     \* FlightAware.flightplans result channel
    clock,          \* the wall clock (Instant::now), in whole seconds
    time,           \* Tracker.time: when the providers were last polled
    streams,        \* main: the connected clients, in the order they were accepted
    open,           \* the clients whose end of the connection is still open
    did_init,       \* main: a first client was accepted in this session
    timer,          \* main: when positions were last sent (NoTimer before the first time)
    buffer_timer,   \* main: when the session was set up
    delay,          \* config.delay, in seconds
    injected_tracker, \* main: hex -> what has been sent about the track
    current_atc_callsign, \* main: the callsign of the controller last validated
    stream_callsign,  \* StreamData.callsign of each connected client
    wx_jobs,        \* NoaaWeather.weather_request job deque
    wx_results,     \* NoaaWeather.weather_request result channel
    connections,    \* how many connections the listener has accepted
    sent,           \* history: the lines the last loop iteration wrote, per client
    wrote,          \* history: the lines the last loop iteration broadcast, in order
    replied,        \* history: the replies the last loop iteration wrote, per client
    dropped,        \* history: the clients a broadcast write to which has failed
    accepted_at,    \* history: when the session's first client was accepted
    last_log,       \* history: what update_aircraft did with the last applied batch
    requested,      \* history: the callsigns a flight plan was ever requested for
    fetched,        \* history: the batches fetched so far (recorded runs only)
    applied,        \* history: the batches applied so far (recorded runs only)
    given,          \* history: how many jobs were given to the pool (pool runs only)
    returned        \* history: how many results were polled (pool runs only)

\* The state of main's session loop.
session == <<streams, open, did_init, timer, buffer_timer, delay, injected_tracker,
             current_atc_callsign, stream_callsign, wx_jobs, wx_results,
             connections, sent, wrote, replied, dropped, accepted_at>>

vars == <<buffer, is_buffering, tracking, callsign_map, fp_jobs, fp_working,
          fp_results, clock, time, last_log, requested, fetched, applied, given, returned,
          session>>

(***************************************************************************)
(* Characters and the patterns of util.rs                                  *)
(***************************************************************************)
Upper == {"A", "B", "C", "D", "E", "F", "G", "H", "I", "J", "K", "L", "M",
          "N", "O", "P", "Q", "R", "S", "T", "U", "V", "W", "X", "Y", "Z"}

Lower == {"a", "b", "c", "d", "e", "f", "g", "h", "i", "j", "k", "l", "m",
          "n", "o", "p", "q", "r", "s", "t", "u", "v", "w", "x", "y", "z"}

Digit == {"0", "1", "2", "3", "4", "5", "6", "7", "8", "9"}

\* The regex class [A-z]: the ASCII range from A to z, which also holds the
\* punctuation between Z and a (the backquote cannot be written in a TLA+ string).
AZRange == Upper \cup Lower \cup {"[", "\\", "]", "^", "_"}

Whitespace == {" "}

\* str::trim: leading and trailing whitespace removed.
RECURSIVE TrimStart(_)
TrimStart(s) ==
    IF s # <<>> /\ Head(s) \in Whitespace THEN TrimStart(Tail(s)) ELSE s

RECURSIVE TrimEnd(_)
TrimEnd(s) ==
    IF s # <<>> /\ s[Len(s)] \in Whitespace
    THEN TrimEnd(SubSeq(s, 1, Len(s) - 1))
    ELSE s

Trim(s) == TrimEnd(TrimStart(s))

\* AIRLINE_REGEX [A-z]{3}\d+ , unanchored (Regex::is_match searches).
IsAirline(cs) ==
    \E i \in 1..Len(cs) :
        /\ i + 3 <= Len(cs)
        /\ \A k \in 0..2 : cs[i + k] \in AZRange
        /\ cs[i + 3] \in Digit

\* REGISTRATION_REGEX [A-Z]-[A-Z]{4}|[A-Z]{2}-[A-Z]{3}|N[0-9]{1,5}[A-Z]{0,2},
\* unanchored.
IsRegistration(cs) ==
    \E i \in 1..Len(cs) :
        \/ /\ i + 5 <= Len(cs)
           /\ cs[i] \in Upper
           /\ cs[i + 1] = "-"
           /\ \A k \in 2..5 : cs[i + k] \in Upper
        \/ /\ i + 5 <= Len(cs)
           /\ cs[i] \in Upper
           /\ cs[i + 1] \in Upper
           /\ cs[i + 2] = "-"
           /\ \A k \in 3..5 : cs[i + k] \in Upper
        \/ /\ i + 1 <= Len(cs)
           /\ cs[i] = "N"
           /\ cs[i + 1] \in Digit

(***************************************************************************)
(* Configuration                                                           *)
(***************************************************************************)
floor == 0

ceiling == 99999

\* Tracker::new configures two providers.
NumProviders == 2

(***************************************************************************)
(* Maps                                                                    *)
(***************************************************************************)
EmptyMap == [k \in {} |-> k]

MapInsert(m, k, v) == [x \in DOMAIN m \cup {k} |-> IF x = k THEN v ELSE m[x]]

MapRemove(m, k) == [x \in DOMAIN m \ {k} |-> m[x]]

(***************************************************************************)
(* InterpolatePosition (interpolate.rs).  Latitudes are in units of        *)
(* 1/(69 * 3600) degree and longitudes in units of 1/(54.6 * 3600) degree, *)
(* so that an aircraft at s miles per hour moves s units per second; the   *)
(* headings are the four cardinal ones, whose sine and cosine are whole.   *)
(***************************************************************************)
INTERPOLATE_OFFSET == 1

Max(a, b) == IF a >= b THEN a ELSE b

\* heading.to_radians().cos() and .sin()
Cos(heading) == CASE heading = 0 -> 1 [] heading = 90 -> 0
                  [] heading = 180 -> -1 [] heading = 270 -> 0

Sin(heading) == CASE heading = 0 -> 0 [] heading = 90 -> 1
                  [] heading = 180 -> 0 [] heading = 270 -> -1

Origin == [lat |-> 0, lon |-> 0]

\* InterpolatePosition::default, at wall-clock time at.
InterpolatePositionDefault(at) ==
    [pos |-> Origin, speed |-> Origin, time |-> at, last_call |-> Origin]

\* InterpolatePosition::new, at wall-clock time at.
InterpolatePositionNew(lat, lon, heading, speed, at) ==
    [pos |-> [lat |-> lat, lon |-> lon],
     last_call |-> [lat |-> lat, lon |-> lon],
     speed |-> [lat |-> Cos(heading) * speed, lon |-> Sin(heading) * speed],
     time |-> at]

\* InterpolatePosition::get at wall-clock time at: the interpolator afterwards
\* (last_call is what is returned).
InterpolateGet(self, at) ==
    LET elasped == Max((at - self.time) - INTERPOLATE_OFFSET, 0)
    IN [self EXCEPT !.last_call = [lat |-> self.pos.lat + self.speed.lat * elasped,
                                   lon |-> self.pos.lon + self.speed.lon * elasped]]

\* InterpolatePosition::get_no_update
InterpolateGetNoUpdate(self) == self.last_call

(***************************************************************************)
(* TrackData                                                               *)
(***************************************************************************)
NoFp == "none"

TrackDataNew(id, ac_data, at) ==
    [id |-> id,
     ac_data |-> ac_data,
     fp |-> NoFp,
     fp_did_try_update |-> FALSE,
     last_position_update |-> 0,
     at_last_position_update |-> at,
     position |-> InterpolatePositionDefault(at)]

(***************************************************************************)
(* Tracker operations.  t is the tracker's state as a record (see Self).   *)
(***************************************************************************)
\* History only: what became of a snapshot of id in this batch.
Logged(t, id, tag) == [t EXCEPT !.log = @ \cup {<<id, tag>>}]

\* History only: the tag of a callsign refused for its length.
ShortTag(callsign) == IF IsRegistration(callsign) THEN "short_registration" ELSE "short"

\* Mutant: the callsign index is not consulted before creating.
CheckAndCreateOverwriting(t, id, data) ==
    IF id \notin DOMAIN t.tracking
    THEN IF Len(data.callsign) <= 4
         THEN [t |-> Logged(t, id, ShortTag(data.callsign)), some |-> TRUE]
         ELSE [t |-> [t EXCEPT
                        !.callsign_map = MapInsert(@, data.callsign, id),
                        !.tracking = MapInsert(@, id, TrackDataNew(id, data, t.now))],
               some |-> FALSE]
    ELSE [t |-> t, some |-> TRUE]

\* Mutant: the length test is off by one (< 4).
CheckAndCreateLengthFour(t, id, data) ==
    IF id \notin DOMAIN t.tracking
    THEN IF data.callsign \in DOMAIN t.callsign_map
         THEN [t |-> Logged(t, id, "taken"), some |-> TRUE]
         ELSE IF Len(data.callsign) < 4
         THEN [t |-> Logged(t, id, ShortTag(data.callsign)), some |-> TRUE]
         ELSE [t |-> [t EXCEPT
                        !.callsign_map = MapInsert(@, data.callsign, id),
                        !.tracking = MapInsert(@, id, TrackDataNew(id, data, t.now))],
               some |-> FALSE]
    ELSE [t |-> t, some |-> TRUE]

\* Returns the new state and whether the data came back (Some(data)): it does
\* unless the aircraft was created.
CheckAndCreateNewAircraft(t, id, data) ==
    IF id \notin DOMAIN t.tracking
    THEN IF data.callsign \in DOMAIN t.callsign_map
         THEN [t |-> Logged(t, id, "taken"), some |-> TRUE]
         ELSE IF Len(data.callsign) <= 4
         THEN [t |-> Logged(t, id, ShortTag(data.callsign)), some |-> TRUE]
         ELSE [t |-> [t EXCEPT
                        !.callsign_map = MapInsert(@, data.callsign, id),
                        !.tracking = MapInsert(@, id, TrackDataNew(id, data, t.now))],
               some |-> FALSE]
    ELSE [t |-> t, some |-> TRUE]

\* Mutant: the index entry of a removed track is left behind.
RemoveOneKeepingIndex(t, id) == [t EXCEPT !.tracking = MapRemove(@, id)]

\* The body of remove_untracked's second loop.
RemoveOne(t, id) ==
    [t EXCEPT !.tracking = MapRemove(@, id),
              !.callsign_map = MapRemove(@, t.tracking[id].ac_data.callsign)]

RECURSIVE RemoveAll(_, _)
RemoveAll(t, to_remove) ==
    IF to_remove = {}
    THEN t
    ELSE LET id == CHOOSE x \in to_remove : TRUE
         IN RemoveAll(RemoveOne(t, id), to_remove \ {id})

\* Mutant: a batch that processed no hex removes nothing.
RemoveUntrackedUnlessNone(t, keys) ==
    IF keys = {}
    THEN t
    ELSE RemoveAll(t, {key \in DOMAIN t.tracking : key \notin keys})

RemoveUntracked(t, keys) ==
    RemoveAll(t, {key \in DOMAIN t.tracking : key \notin keys})

\* Mutant: the timestamp gate is missing.
UpdatePositionUngated(t, id, new_ac_data) ==
    IF id \notin DOMAIN t.tracking
    THEN t
    ELSE [t EXCEPT !.tracking[id].position =
                        InterpolatePositionNew(new_ac_data.latitude,
                                               new_ac_data.longitude,
                                               new_ac_data.heading,
                                               new_ac_data.ground_speed, t.now),
                   !.tracking[id].last_position_update = new_ac_data.timestamp,
                   !.tracking[id].at_last_position_update = t.now]

UpdatePosition(t, id, new_ac_data) ==
    IF id \notin DOMAIN t.tracking
    THEN t
    ELSE IF new_ac_data.timestamp <= t.tracking[id].last_position_update
    THEN Logged(t, id, "stale")
    ELSE [t EXCEPT !.tracking[id].position =
                        InterpolatePositionNew(new_ac_data.latitude,
                                               new_ac_data.longitude,
                                               new_ac_data.heading,
                                               new_ac_data.ground_speed, t.now),
                   !.tracking[id].last_position_update = new_ac_data.timestamp,
                   !.tracking[id].at_last_position_update = t.now]

\* Mutant: a request is made for as long as the track has no flight plan.
TryUpdateFlightplanRetrying(t, id) ==
    IF id \notin DOMAIN t.tracking
    THEN t
    ELSE IF t.tracking[id].fp # NoFp
    THEN t
    ELSE LET callsign == t.tracking[id].ac_data.callsign
             tried == [t EXCEPT !.tracking[id].fp_did_try_update = TRUE]
         IN IF IsAirline(callsign)
            THEN [tried EXCEPT !.fp_jobs = Append(@, [id |-> id, callsign |-> callsign])]
            ELSE tried

TryUpdateFlightplan(t, id) ==
    IF id \notin DOMAIN t.tracking
    THEN t
    ELSE IF t.tracking[id].fp # NoFp \/ t.tracking[id].fp_did_try_update
    THEN t
    ELSE LET callsign == t.tracking[id].ac_data.callsign
             tried == [t EXCEPT !.tracking[id].fp_did_try_update = TRUE]
         IN IF IsAirline(callsign)
            THEN [tried EXCEPT !.fp_jobs = Append(@, [id |-> id, callsign |-> callsign])]
            ELSE tried

\* Mutant: the ceiling is not tested.
ProcessAircraftNoCeiling(acc, id, aircraft) ==
    IF id \in acc.processed_ids
    THEN [acc EXCEPT !.t = Logged(@, id, "dup")]
    ELSE IF Trim(aircraft.callsign) = <<>>
    THEN acc
    ELSE IF aircraft.altitude < floor
    THEN [acc EXCEPT !.t = Logged(@, id, "alt")]
    ELSE LET r == CheckAndCreateNewAircraft(acc.t, id, aircraft)
             t2 == IF r.some
                   THEN TryUpdateFlightplan(UpdatePosition(r.t, id, aircraft), id)
                   ELSE r.t
         IN [t |-> t2, processed_ids |-> acc.processed_ids \cup {id}]

\* Mutant: processed_ids is not consulted.
ProcessAircraftNoProcessedIds(acc, id, aircraft) ==
    IF Trim(aircraft.callsign) = <<>>
    THEN acc
    ELSE IF aircraft.altitude < floor \/ aircraft.altitude > ceiling
    THEN [acc EXCEPT !.t = Logged(@, id, "alt")]
    ELSE LET r == CheckAndCreateNewAircraft(acc.t, id, aircraft)
             t2 == IF r.some
                   THEN TryUpdateFlightplan(UpdatePosition(r.t, id, aircraft), id)
                   ELSE r.t
         IN [t |-> IF id \in acc.processed_ids THEN Logged(t2, id, "dup") ELSE t2,
             processed_ids |-> acc.processed_ids \cup {id}]

\* Mutant: the hex is marked as processed before the filters, not after.
ProcessAircraftMarkingRejected(acc, id, aircraft) ==
    IF id \in acc.processed_ids
    THEN [acc EXCEPT !.t = Logged(@, id, "dup")]
    ELSE IF Trim(aircraft.callsign) = <<>>
    THEN [acc EXCEPT !.processed_ids = @ \cup {id}]
    ELSE IF aircraft.altitude < floor \/ aircraft.altitude > ceiling
    THEN [t |-> Logged(acc.t, id, "alt"), processed_ids |-> acc.processed_ids \cup {id}]
    ELSE LET r == CheckAndCreateNewAircraft(acc.t, id, aircraft)
             t2 == IF r.some
                   THEN TryUpdateFlightplan(UpdatePosition(r.t, id, aircraft), id)
                   ELSE r.t
         IN [t |-> t2, processed_ids |-> acc.processed_ids \cup {id}]

\* One iteration of update_aircraft's loop; acc carries the tracker and
\* processed_ids.
ProcessAircraft(acc, id, aircraft) ==
    IF id \in acc.processed_ids
    THEN [acc EXCEPT !.t = Logged(@, id, "dup")]
    ELSE IF Trim(aircraft.callsign) = <<>>
    THEN acc
    ELSE IF aircraft.altitude < floor \/ aircraft.altitude > ceiling
    THEN [acc EXCEPT !.t = Logged(@, id, "alt")]
    ELSE LET r == CheckAndCreateNewAircraft(acc.t, id, aircraft)
             t2 == IF r.some
                   THEN TryUpdateFlightplan(UpdatePosition(r.t, id, aircraft), id)
                   ELSE r.t
         IN [t |-> t2, processed_ids |-> acc.processed_ids \cup {id}]

RECURSIVE ProcessAll(_, _)
ProcessAll(acc, aircraft) ==
    IF aircraft = <<>>
    THEN acc
    ELSE ProcessAll(ProcessAircraft(acc, Head(aircraft).id, Head(aircraft)),
                    Tail(aircraft))

\* update_aircraft once get_next_aircraft_update has handed it a batch.
ApplyBatch(t, aircraft) ==
    LET acc == ProcessAll([t |-> [t EXCEPT !.log = {}], processed_ids |-> {}],
                          aircraft)
    IN RemoveUntracked(acc.t, acc.processed_ids)

\* The providers' answers in provider order: each is an error or the aircraft
\* of its map, in the map's iteration order.
RECURSIVE AllData(_)
AllData(results) ==
    IF results = <<>>
    THEN <<>>
    ELSE (IF Head(results).ok THEN Head(results).aircraft ELSE <<>>)
         \o AllData(Tail(results))

\* Mutant: the batch is handed out whether or not the tracker is buffering.
GetNextIgnoringBuffering(t, results) ==
    LET pushed == Append(t.buffer, AllData(results))
    IN [t |-> [t EXCEPT !.buffer = Tail(pushed)], aircraft |-> <<Head(pushed)>>]

\* Mutant: pop_back for pop_front.
GetNextNewestFirst(t, results) ==
    LET pushed == Append(t.buffer, AllData(results))
    IN IF ~t.is_buffering
       THEN [t |-> [t EXCEPT !.buffer = SubSeq(pushed, 1, Len(pushed) - 1)],
             aircraft |-> <<pushed[Len(pushed)]>>]
       ELSE [t |-> [t EXCEPT !.buffer = pushed], aircraft |-> <<>>]

\* Mutant: a batch is queued only while buffering, so the replay catches up.
GetNextCatchingUp(t, results) ==
    IF ~t.is_buffering
    THEN IF t.buffer = <<>>
         THEN [t |-> t, aircraft |-> <<AllData(results)>>]
         ELSE [t |-> [t EXCEPT !.buffer = Tail(@)], aircraft |-> <<Head(t.buffer)>>]
    ELSE [t |-> [t EXCEPT !.buffer = Append(@, AllData(results))], aircraft |-> <<>>]

POLL_RATE == 3

\* Returns the new state and the batch to apply, if any (a sequence of zero or
\* one batch).
GetNextAircraftUpdate(t, results) ==
    LET pushed == Append(t.buffer, AllData(results))
    IN IF ~t.is_buffering
       THEN [t |-> [t EXCEPT !.buffer = Tail(pushed)], aircraft |-> <<Head(pushed)>>]
       ELSE [t |-> [t EXCEPT !.buffer = pushed], aircraft |-> <<>>]

UpdateAircraft(t, results) ==
    LET r == GetNextAircraftUpdate(t, results)
    IN IF r.aircraft = <<>> THEN r.t ELSE ApplyBatch(r.t, r.aircraft[1])

UpdateFlightplan(t, id, fp) ==
    IF id \in DOMAIN t.tracking
    THEN [t EXCEPT !.tracking[id].fp = fp]
    ELSE t

\* Mutant: every result that is waiting is taken in one tick.
RECURSIVE StepFlightplanDraining(_)
StepFlightplanDraining(t) ==
    IF t.fp_results = <<>>
    THEN t
    ELSE LET result == Head(t.fp_results)
             polled == [t EXCEPT !.fp_results = Tail(@)]
         IN StepFlightplanDraining(
                IF result.ok THEN UpdateFlightplan(polled, result.id, result.fp)
                ELSE polled)

StepFlightplan(t) ==
    IF t.fp_results = <<>>
    THEN t
    ELSE LET result == Head(t.fp_results)
             polled == [t EXCEPT !.fp_results = Tail(@)]
         IN IF result.ok THEN UpdateFlightplan(polled, result.id, result.fp) ELSE polled

\* Tracker::step; due stands for time.elapsed().as_secs() > POLL_RATE.
TrackerStep(t, due, results) ==
    StepFlightplan(IF due THEN UpdateAircraft(t, results) ELSE t)

(***************************************************************************)
(* Inputs                                                                  *)
(***************************************************************************)
Hexes == {"A1B2C3", "D4E5F6"}

\* The providers in the order of Tracker::new, and the type code each reports.
ProviderName == <<"FlightRadar24", "ADSBExchange">>

ProviderModel == <<"B738", "B38M">>

\* Provider timestamps range over 0..MaxTs.
MaxTs == 2

\* At most this many polls in a recorded run.
MaxPolls == 4

\* Where the aircraft is reported (40 N, 74 W, in the units of the
\* interpolator).
Fix == [lat |-> 40 * 248400, lon |-> -74 * 196560]

CS_BLANK == <<" ">>

CS_DAL9 == <<"D", "A", "L", "9">>

CS_N12 == <<"N", "1", "2">>

CS_N123AB == <<"N", "1", "2", "3", "A", "B">>

CS_GABCD == <<"G", "-", "A", "B", "C", "D">>

\* General-aviation traffic: blank, too short, and two registrations.
AdmissionCallsigns == {CS_BLANK, CS_DAL9, CS_N12, CS_N123AB, CS_GABCD}

Altitudes == {floor - 1, floor, ceiling, ceiling + 1}

\* What provider p may report about one aircraft.
AdmissionPool(p) ==
    [id : Hexes, callsign : AdmissionCallsigns, altitude : {floor},
     timestamp : {1}, model : {ProviderModel[p]}, provider : {ProviderName[p]},
     latitude : {Fix.lat}, longitude : {Fix.lon}, heading : {90},
     ground_speed : {0}, squawk : {"2000"}, origin : {"JFK"},
     destination : {"LAX"}, is_on_ground : {FALSE}]

KinematicsPool(p) ==
    [id : {"A1B2C3"}, callsign : {CS_N123AB}, altitude : Altitudes,
     timestamp : 0..MaxTs, model : {ProviderModel[p]}, provider : {ProviderName[p]},
     latitude : {Fix.lat}, longitude : {Fix.lon}, heading : {90},
     ground_speed : {0}, squawk : {"2000"}, origin : {"JFK"},
     destination : {"LAX"}, is_on_ground : {FALSE}]

BufferPool(p) ==
    [id : {"A1B2C3"}, callsign : {CS_N123AB}, altitude : {floor},
     timestamp : {1}, model : {ProviderModel[p]}, provider : {ProviderName[p]},
     latitude : {Fix.lat}, longitude : {Fix.lon}, heading : {90},
     ground_speed : {0}, squawk : {"2000"}, origin : {"JFK"},
     destination : {"LAX"}, is_on_ground : {FALSE}]

\* The sequences of at most n aircraft of pool with no hex twice.
RECURSIVE Sightings(_, _)
Sightings(pool, n) ==
    IF n = 0
    THEN {<<>>}
    ELSE LET shorter == Sightings(pool, n - 1)
         IN shorter \cup
            {Append(x[1], x[2]) : x \in
                {y \in shorter \X pool :
                    \A i \in 1..Len(y[1]) : y[1][i].id # y[2].id}}

\* A provider's map (hex -> aircraft) as the sequence its iteration yields: any
\* of the aircraft in range, in any order.
Reports(pool) == Sightings(pool, Cardinality({a.id : a \in pool}))

\* get_aircraft: Err, or Ok(map).
ProviderResults(pool) ==
    {[ok |-> FALSE]} \cup {[ok |-> TRUE, aircraft |-> s] : s \in Reports(pool)}

\* One answer per provider.
FetchResults(answers) ==
    {r \in [1..NumProviders -> UNION {answers[p] : p \in 1..NumProviders}] :
        \A p \in 1..NumProviders : r[p] \in answers[p]}

AdmissionAnswers ==
    FetchResults([p \in 1..NumProviders |-> ProviderResults(AdmissionPool(p))])

KinematicsAnswers ==
    FetchResults([p \in 1..NumProviders |-> ProviderResults(KinematicsPool(p))])

BufferAnswers ==
    FetchResults([p \in 1..NumProviders |-> ProviderResults(BufferPool(p))])

\* One aircraft whose provider timestamp may or may not advance.
AgingPool(p) ==
    [id : {"A1B2C3"}, callsign : {CS_N123AB}, altitude : {floor},
     timestamp : {1, 2}, model : {ProviderModel[p]}, provider : {ProviderName[p]},
     latitude : {Fix.lat}, longitude : {Fix.lon}, heading : {90},
     ground_speed : {0}, squawk : {"2000"}, origin : {"JFK"},
     destination : {"LAX"}, is_on_ground : {FALSE}]

\* One aircraft flying east at 360 mph, seen at one of two places, whose
\* provider timestamp may or may not advance.
UpdatePool(p) ==
    [id : {"A1B2C3"}, callsign : {CS_N123AB}, altitude : {floor},
     timestamp : {1, 2}, model : {ProviderModel[p]}, provider : {ProviderName[p]},
     latitude : {Fix.lat}, longitude : {Fix.lon, Fix.lon + 3600}, heading : {90},
     ground_speed : {360}, squawk : {"2000"}, origin : {"JFK"},
     destination : {"LAX"}, is_on_ground : {FALSE}]

UpdateAnswers ==
    FetchResults([p \in 1..NumProviders |-> ProviderResults(UpdatePool(p))])

\* The wall clock of the position updates runs to MaxUpdateClock seconds.
MaxUpdateClock == 12

AgingAnswers ==
    FetchResults([p \in 1..NumProviders |-> ProviderResults(AgingPool(p))])

\* The wall clock runs to MaxClock seconds.
MaxClock == 30

\* Two aircraft that come and go, each with its own registration: a report is
\* good, blank, or above the ceiling.
EvictionPool(p) ==
    {a \in [id : Hexes, callsign : {CS_BLANK, CS_N123AB, CS_GABCD},
            altitude : {floor, ceiling + 1}, timestamp : {1},
            model : {ProviderModel[p]}, provider : {ProviderName[p]},
            latitude : {Fix.lat}, longitude : {Fix.lon}, heading : {90},
            ground_speed : {0}, squawk : {"2000"}, origin : {"JFK"},
            destination : {"LAX"}, is_on_ground : {FALSE}] :
        /\ a.callsign = CS_BLANK => a.altitude = floor
        /\ a.callsign = CS_N123AB => a.id = "A1B2C3"
        /\ a.callsign = CS_GABCD => a.id = "D4E5F6"}

EvictionAnswers ==
    FetchResults([p \in 1..NumProviders |-> ProviderResults(EvictionPool(p))])

\* Airline traffic, for the flight-plan requests: one aircraft that may come
\* back under another flight number.
CS_UAL123 == <<"U", "A", "L", "1", "2", "3">>

CS_AAL55 == <<"A", "A", "L", "5", "5">>

FpPool(p) ==
    [id : {"A1B2C3"}, callsign : {CS_UAL123, CS_AAL55, CS_N123AB}, altitude : {floor},
     timestamp : {1}, model : {ProviderModel[p]}, provider : {ProviderName[p]},
     latitude : {Fix.lat}, longitude : {Fix.lon}, heading : {90},
     ground_speed : {0}, squawk : {"2000"}, origin : {"JFK"},
     destination : {"LAX"}, is_on_ground : {FALSE}]

FpAnswers ==
    FetchResults([p \in 1..NumProviders |-> ProviderResults(FpPool(p))])

\* What FlightAware may know about a flight (the route stands for the plan).
FlightPlans == {"KJFK DCT KLAX", "KBOS DCT KORD"}

\* The worker closure of FlightAware::run on one request: an error, or the
\* plan found, stamped with the request's id and callsign.
FlightPlanResults(job) ==
    {[ok |-> FALSE]} \cup
    {[ok |-> TRUE, id |-> job.id, callsign |-> job.callsign, fp |-> fp] :
        fp \in FlightPlans}

\* FlightAware::new: Request::new(5).
NumThreads == 5

\* At most this many flight-plan requests are outstanding (queued, being
\* worked on, or answered and not yet polled).
MaxRequests == 2

Outstanding == Len(fp_jobs) + Len(fp_working) + Len(fp_results)

RemoveAt(seq, i) == SubSeq(seq, 1, i - 1) \o SubSeq(seq, i + 1, Len(seq))

\* The requests given to a pool on its own, in this order.
PoolJobs ==
    <<[id |-> "A1B2C3", callsign |-> CS_UAL123],
      [id |-> "D4E5F6", callsign |-> CS_AAL55],
      [id |-> "A1B2C3", callsign |-> CS_AAL55],
      [id |-> "D4E5F6", callsign |-> CS_UAL123]>>

\* The session: one aircraft, with the fields the lines to the clients show.
SessionPool(p) ==
    [id : {"A1B2C3"}, callsign : {CS_N123AB}, altitude : {floor},
     timestamp : {1}, model : {ProviderModel[p]}, provider : {ProviderName[p]},
     latitude : {Fix.lat}, longitude : {Fix.lon}, heading : {90},
     ground_speed : {0}, squawk : {"2000"}, origin : {"JFK"}, destination : {"LAX"},
     is_on_ground : {FALSE}]

SessionAnswers ==
    FetchResults([p \in 1..NumProviders |-> ProviderResults(SessionPool(p))])

\* Traffic for the lines about a track: the first provider sees an airliner
\* that may or may not squawk, the second a private aircraft from an airport
\* the airports file does not know.
TrafficPool(p) ==
    IF p = 1
    THEN [id : {"A1B2C3"}, callsign : {CS_AAL55}, altitude : {floor},
          timestamp : {1}, model : {ProviderModel[p]}, provider : {ProviderName[p]},
          latitude : {Fix.lat}, longitude : {Fix.lon}, heading : {90},
          ground_speed : {0}, squawk : {"0000", "2000"}, origin : {"JFK"},
          destination : {"LAX"}, is_on_ground : {FALSE}]
    ELSE [id : {"D4E5F6"}, callsign : {CS_N123AB}, altitude : {floor},
          timestamp : {1}, model : {ProviderModel[p]}, provider : {ProviderName[p]},
          latitude : {Fix.lat}, longitude : {Fix.lon}, heading : {90},
          ground_speed : {0}, squawk : {"2000"}, origin : {"BOS"},
          destination : {"LAX"}, is_on_ground : {FALSE}]

TrafficAnswers ==
    FetchResults([p \in 1..NumProviders |-> ProviderResults(TrafficPool(p))])

\* The airliner alone, seen by the first provider only.
ControllerAnswers ==
    FetchResults([p \in 1..NumProviders |->
        ProviderResults(IF p = 1 THEN TrafficPool(p) ELSE {})])

\* The traffic runs to MaxTrafficClock seconds on the wall clock.
MaxTrafficClock == 10

\* A controller's session runs to MaxControllerClock seconds: three position
\* cadences after a track's second poll, and a fourth poll.
MaxControllerClock == 16

\* Dead reckoning: the first provider sees one private aircraft, flying east
\* at 360 mph or standing on the ground, and its timestamp does not advance.
ReckoningPool ==
    [id : {"A1B2C3"}, callsign : {CS_N123AB}, altitude : {floor},
     timestamp : {1}, model : {ProviderModel[1]}, provider : {ProviderName[1]},
     latitude : {Fix.lat}, longitude : {Fix.lon}, heading : {90},
     ground_speed : {360}, squawk : {"2000"}, origin : {"JFK"},
     destination : {"LAX"}, is_on_ground : {FALSE, TRUE}]

ReckoningAnswers ==
    FetchResults([p \in 1..NumProviders |->
        ProviderResults(IF p = 1 THEN ReckoningPool ELSE {})])

\* Headings: one private aircraft, reported once, on any whole heading from
\* north round to north again.
Headings == 0..360

HeadingPool ==
    [id : {"A1B2C3"}, callsign : {CS_N123AB}, altitude : {floor},
     timestamp : {1}, model : {ProviderModel[1]}, provider : {ProviderName[1]},
     latitude : {Fix.lat}, longitude : {Fix.lon}, heading : Headings,
     ground_speed : {0}, squawk : {"2000"}, origin : {"JFK"},
     destination : {"LAX"}, is_on_ground : {FALSE}]

\* One answer per provider: the first sees the aircraft, the others nothing.
HeadingAnswers ==
    {[p \in 1..NumProviders |-> IF p = 1 THEN seen ELSE unseen] :
        seen \in ProviderResults(HeadingPool), unseen \in ProviderResults({})}

\* The aircraft is watched for MaxHeadingClock seconds: the poll that creates
\* its track and the position cadence after it.
MaxHeadingClock == 5

\* A session that ends is watched for MaxRestartClock seconds: the poll that
\* creates a track and the poll that requests its flight plan.
MaxRestartClock == 8

\* The weather is watched for MaxWeatherClock seconds.
MaxWeatherClock == 2

\* Dead reckoning is watched for MaxReckoningClock seconds: a position update
\* at the second poll and the cadences of the twenty seconds after it.
MaxReckoningClock == 28

\* What NOAA may answer to a METAR request.
MetarResults == {[ok |-> FALSE], [ok |-> TRUE, metar |-> "KJFK 041251Z 18005KT"]}

\* The clients that connect, in the order the listener accepts them.
Clients == <<"vrc", "euroscope">>

\* The delays configured: none, shorter than a poll, longer than a poll.
Delays == {0, 1, 5}

\* The session's wall clock runs to MaxSessionClock seconds.
MaxSessionClock == 6

\* At most this many METAR requests are outstanding.
MaxMetar == 1

\* Where in an iteration a client's write may fail: nowhere, at the first line,
\* at the second.
FailPoints == {0, 1, 2}

(***************************************************************************)
(* The provider pool of providers.rs                                       *)
(***************************************************************************)
\* CALLSIGN_REGEX [A-Z]{3}[A-Z0-9]{1,}, unanchored.
IsCallsign(cs) ==
    \E i \in 1..Len(cs) :
        /\ i + 3 <= Len(cs)
        /\ \A k \in 0..2 : cs[i + k] \in Upper
        /\ cs[i + 3] \in Upper \cup Digit

IsValidCallsign(cs) == IsCallsign(cs) \/ IsRegistration(cs)

\* AircraftData::combine_with: self is the later provider's record, rhs the
\* one already in the map.  The fields not named are self's.
CombineWith(self, rhs) ==
    LET update_space == rhs.timestamp > self.timestamp
    IN [self EXCEPT
            !.callsign = IF IsValidCallsign(self.callsign) THEN self.callsign
                         ELSE rhs.callsign,
            !.latitude = IF self.latitude # 0 /\ ~update_space THEN self.latitude
                         ELSE rhs.latitude,
            !.longitude = IF self.longitude # 0 /\ ~update_space THEN self.longitude
                          ELSE rhs.longitude,
            !.heading = IF ~update_space THEN self.heading ELSE rhs.heading,
            !.altitude = IF self.altitude # 0 /\ ~update_space THEN self.altitude
                         ELSE rhs.altitude,
            !.model = IF self.model = "" THEN self.model ELSE rhs.model,
            !.origin = IF self.origin # "" /\ ~update_space THEN self.origin
                       ELSE rhs.origin,
            !.destination = IF self.destination # "" /\ ~update_space
                            THEN self.destination ELSE rhs.destination,
            !.provider = "Combined"]

\* The inner loop of the pool's job: one provider's aircraft into the map.
RECURSIVE MergeInto(_, _)
MergeInto(aircraft_map, data) ==
    IF data = <<>>
    THEN aircraft_map
    ELSE LET d == Head(data)
             merged == IF d.id \in DOMAIN aircraft_map
                       THEN CombineWith(d, aircraft_map[d.id])
                       ELSE d
         IN MergeInto(MapInsert(aircraft_map, d.id, merged), Tail(data))

\* The pool's job from provider p on: Err((name, e)) at the first provider
\* that fails, else Ok(aircraft_map).
RECURSIVE ProvidersRunFrom(_, _, _)
ProvidersRunFrom(results, p, aircraft_map) ==
    IF p > Len(results)
    THEN [ok |-> TRUE, aircraft_map |-> aircraft_map]
    ELSE IF ~results[p].ok
    THEN [ok |-> FALSE, name |-> ProviderName[p]]
    ELSE ProvidersRunFrom(results, p + 1,
                          MergeInto(aircraft_map, results[p].aircraft))

ProvidersRun(results) == ProvidersRunFrom(results, 1, EmptyMap)

(***************************************************************************)
(* The session loop of main                                                *)
(***************************************************************************)
Range(seq) == {seq[i] : i \in 1..Len(seq)}

\* Mutant: a client whose write failed is kept.
WriteStrKeepingFailed(strs, failing) == strs

\* write_str: the line goes to every client; failing are those whose write_all
\* returns an error.
WriteStr(strs, failing) ==
    LET Written(x) == x \notin failing
    IN SelectSeq(strs, Written)

\* The broadcasts of one iteration, one write_str per line.  w carries the
\* client list, the number of lines written so far, and the history; client c's
\* write fails at line number fail_at[c] of the iteration.
RECURSIVE WriteLines(_, _, _)
WriteLines(w, lines, fail_at) ==
    IF lines = <<>>
    THEN w
    ELSE LET failing == {c \in DOMAIN fail_at : fail_at[c] = w.n + 1}
         IN WriteLines([streams |-> WriteStr(w.streams, failing),
                        n |-> w.n + 1,
                        sent |-> w.sent \cup
                            {<<c, Head(lines)>> : c \in Range(w.streams) \ failing},
                        dropped |-> w.dropped \cup (Range(w.streams) \cap failing)],
                       Tail(lines), fail_at)

\* TrackedData::default
TrackedDataDefault ==
    [did_set_fp |-> FALSE, did_init_set |-> FALSE,
     last_origin |-> "", last_destination |-> ""]

POSITION_RATE == 5

\* main.rs: a position older than this many seconds is no longer interpolated;
\* the horizon the eviction by age would use.
STALE_AFTER == 20

\* The airports file: the IATA codes it knows, with their ICAO codes.
IataIcaoMap == [iata \in {"JFK", "LAX"} |-> IF iata = "JFK" THEN "KJFK" ELSE "KLAX"]

\* airports.get_icao_from_iata(code).unwrap_or(code)
IcaoOr(code) == IF code \in DOMAIN IataIcaoMap THEN IataIcaoMap[code] ELSE code

\* AircraftData::get_airline: the leftmost match of AIRLINE_REGEX, its digits
\* taken greedily; <<>> stands for None.
GetAirline(cs) ==
    IF ~IsAirline(cs)
    THEN <<>>
    ELSE LET Starts(i) == /\ i + 3 <= Len(cs)
                          /\ \A k \in 0..2 : cs[i + k] \in AZRange
                          /\ cs[i + 3] \in Digit
             i == CHOOSE x \in 1..Len(cs) :
                    Starts(x) /\ \A y \in 1..(x - 1) : ~Starts(y)
             j == CHOOSE x \in (i + 3)..Len(cs) :
                    /\ \A k \in (i + 3)..x : cs[k] \in Digit
                    /\ (x < Len(cs) => cs[x + 1] \notin Digit)
         IN SubSeq(cs, i, j)

\* The lines to the clients, as the builder's name and the fields it formats.
\* The pbh word of a position line: heading / 360 * 1024, truncated, in bits
\* 2 and up.
Pbh(heading) == ((heading * 1024) \div 360) * 4

BuildAircraftString(ac_data, pos) ==
    <<"@N", ac_data.callsign, ac_data.squawk, pos.lat, pos.lon, ac_data.altitude,
      ac_data.ground_speed, Pbh(ac_data.heading)>>

GetRemarks(ac_data) == <<"Hex", ac_data.id>>

BuildFlightplanString(fp, ac_data) ==
    <<"$FP", ac_data.callsign, "I", fp, GetRemarks(ac_data)>>

BuildInitFlightplanString(ac_data) ==
    <<"$FP init", ac_data.callsign,
      IF IsAirline(ac_data.callsign) THEN "I" ELSE "V",
      ac_data.model, IcaoOr(ac_data.origin), IcaoOr(ac_data.destination),
      GetRemarks(ac_data)>>

BuildBeaconCodeString(my_callsign, callsign, beacon_code) ==
    <<"#PC", my_callsign, callsign, beacon_code>>

BuildMetarString(callsign, metar) == <<"$AR", callsign, metar>>

BuildValidateAtcStringWithCallsign(callsign) == <<"$CR", callsign, "ATC:Y", callsign>>

BuildValidateAtcStringWithoutCallsign(callsign) == <<"$CR", callsign, "ATC:Y">>

BuildPlaneInfoString(callsign, to, ac_data) ==
    <<"#SB", callsign, to, ac_data.model, GetAirline(ac_data.callsign)>>

\* Mutant: the flight-plan line is written at every cadence once the flight
\* plan is attached.
AircraftLinesRepeatingFp(aircraft, tracked, at, atc) ==
    LET should_interpolate ==
            /\ ~aircraft.ac_data.is_on_ground
            /\ at - aircraft.at_last_position_update < STALE_AFTER
        interpolator == IF should_interpolate
                        THEN InterpolateGet(aircraft.position, at)
                        ELSE aircraft.position
        pos == IF should_interpolate
               THEN interpolator.last_call
               ELSE InterpolateGetNoUpdate(aircraft.position)
        should_set_init == ~tracked.did_init_set /\ aircraft.fp = NoFp
        metadata_was_updated ==
            \/ tracked.last_origin # aircraft.ac_data.origin
            \/ tracked.last_destination # aircraft.ac_data.destination
        init == (should_set_init \/ metadata_was_updated) /\ aircraft.fp = NoFp
        real == aircraft.fp # NoFp
    IN [lines |->
            <<BuildAircraftString(aircraft.ac_data, pos)>>
            \o (IF init THEN <<BuildInitFlightplanString(aircraft.ac_data)>>
                ELSE <<>>)
            \o (IF real THEN <<BuildFlightplanString(aircraft.fp, aircraft.ac_data)>>
                ELSE <<>>)
            \o (IF real /\ aircraft.ac_data.squawk # "0000"
                THEN <<BuildBeaconCodeString(atc, aircraft.ac_data.callsign,
                                             aircraft.ac_data.squawk)>>
                ELSE <<>>),
        tracked |->
            [did_set_fp |-> tracked.did_set_fp \/ real,
             did_init_set |-> tracked.did_init_set \/ init,
             last_origin |-> IF init THEN aircraft.ac_data.origin
                             ELSE tracked.last_origin,
             last_destination |-> IF init THEN aircraft.ac_data.destination
                                  ELSE tracked.last_destination],
        aircraft |-> [aircraft EXCEPT !.position = interpolator]]

\* Mutant: the initial flight-plan line is written at every cadence until the
\* flight plan is attached.
AircraftLinesRepeatingInit(aircraft, tracked, at, atc) ==
    LET should_interpolate ==
            /\ ~aircraft.ac_data.is_on_ground
            /\ at - aircraft.at_last_position_update < STALE_AFTER
        interpolator == IF should_interpolate
                        THEN InterpolateGet(aircraft.position, at)
                        ELSE aircraft.position
        pos == IF should_interpolate
               THEN interpolator.last_call
               ELSE InterpolateGetNoUpdate(aircraft.position)
        should_set_init == ~tracked.did_init_set /\ aircraft.fp = NoFp
        metadata_was_updated ==
            \/ tracked.last_origin # aircraft.ac_data.origin
            \/ tracked.last_destination # aircraft.ac_data.destination
        init == aircraft.fp = NoFp
        real == ~tracked.did_set_fp /\ aircraft.fp # NoFp
    IN [lines |->
            <<BuildAircraftString(aircraft.ac_data, pos)>>
            \o (IF init THEN <<BuildInitFlightplanString(aircraft.ac_data)>>
                ELSE <<>>)
            \o (IF real THEN <<BuildFlightplanString(aircraft.fp, aircraft.ac_data)>>
                ELSE <<>>)
            \o (IF real /\ aircraft.ac_data.squawk # "0000"
                THEN <<BuildBeaconCodeString(atc, aircraft.ac_data.callsign,
                                             aircraft.ac_data.squawk)>>
                ELSE <<>>),
        tracked |->
            [did_set_fp |-> tracked.did_set_fp \/ real,
             did_init_set |-> tracked.did_init_set \/ init,
             last_origin |-> IF init THEN aircraft.ac_data.origin
                             ELSE tracked.last_origin,
             last_destination |-> IF init THEN aircraft.ac_data.destination
                                  ELSE tracked.last_destination],
        aircraft |-> [aircraft EXCEPT !.position = interpolator]]

\* Mutant: a changed origin or destination brings the initial flight-plan
\* line back even when a flight plan is attached.
AircraftLinesInitDespiteFp(aircraft, tracked, at, atc) ==
    LET should_interpolate ==
            /\ ~aircraft.ac_data.is_on_ground
            /\ at - aircraft.at_last_position_update < STALE_AFTER
        interpolator == IF should_interpolate
                        THEN InterpolateGet(aircraft.position, at)
                        ELSE aircraft.position
        pos == IF should_interpolate
               THEN interpolator.last_call
               ELSE InterpolateGetNoUpdate(aircraft.position)
        should_set_init == ~tracked.did_init_set /\ aircraft.fp = NoFp
        metadata_was_updated ==
            \/ tracked.last_origin # aircraft.ac_data.origin
            \/ tracked.last_destination # aircraft.ac_data.destination
        init == should_set_init \/ metadata_was_updated
        real == ~tracked.did_set_fp /\ aircraft.fp # NoFp
    IN [lines |->
            <<BuildAircraftString(aircraft.ac_data, pos)>>
            \o (IF init THEN <<BuildInitFlightplanString(aircraft.ac_data)>>
                ELSE <<>>)
            \o (IF real THEN <<BuildFlightplanString(aircraft.fp, aircraft.ac_data)>>
                ELSE <<>>)
            \o (IF real /\ aircraft.ac_data.squawk # "0000"
                THEN <<BuildBeaconCodeString(atc, aircraft.ac_data.callsign,
                                             aircraft.ac_data.squawk)>>
                ELSE <<>>),
        tracked |->
            [did_set_fp |-> tracked.did_set_fp \/ real,
             did_init_set |-> tracked.did_init_set \/ init,
             last_origin |-> IF init THEN aircraft.ac_data.origin
                             ELSE tracked.last_origin,
             last_destination |-> IF init THEN aircraft.ac_data.destination
                                  ELSE tracked.last_destination],
        aircraft |-> [aircraft EXCEPT !.position = interpolator]]

\* The loop body for one aircraft when positions are due: the lines to
\* broadcast, what is then remembered about the track, and the track with the
\* position its interpolator last returned.
AircraftLines(aircraft, tracked, at, atc) ==
    LET should_interpolate ==
            /\ ~aircraft.ac_data.is_on_ground
            /\ at - aircraft.at_last_position_update < STALE_AFTER
        interpolator == IF should_interpolate
                        THEN InterpolateGet(aircraft.position, at)
                        ELSE aircraft.position
        pos == IF should_interpolate
               THEN interpolator.last_call
               ELSE InterpolateGetNoUpdate(aircraft.position)
        should_set_init == ~tracked.did_init_set /\ aircraft.fp = NoFp
        metadata_was_updated ==
            \/ tracked.last_origin # aircraft.ac_data.origin
            \/ tracked.last_destination # aircraft.ac_data.destination
        init == (should_set_init \/ metadata_was_updated) /\ aircraft.fp = NoFp
        real == ~tracked.did_set_fp /\ aircraft.fp # NoFp
    IN [lines |->
            <<BuildAircraftString(aircraft.ac_data, pos)>>
            \o (IF init THEN <<BuildInitFlightplanString(aircraft.ac_data)>>
                ELSE <<>>)
            \o (IF real THEN <<BuildFlightplanString(aircraft.fp, aircraft.ac_data)>>
                ELSE <<>>)
            \o (IF real /\ aircraft.ac_data.squawk # "0000"
                THEN <<BuildBeaconCodeString(atc, aircraft.ac_data.callsign,
                                             aircraft.ac_data.squawk)>>
                ELSE <<>>),
        tracked |->
            [did_set_fp |-> tracked.did_set_fp \/ real,
             did_init_set |-> tracked.did_init_set \/ init,
             last_origin |-> IF init THEN aircraft.ac_data.origin
                             ELSE tracked.last_origin,
             last_destination |-> IF init THEN aircraft.ac_data.destination
                                  ELSE tracked.last_destination],
        aircraft |-> [aircraft EXCEPT !.position = interpolator]]

\* Mutant: the aircraft's lines are written in every iteration, whether or
\* not positions are due.
RECURSIVE AllAircraftLinesEveryIteration(_, _, _, _, _, _)
AllAircraftLinesEveryIteration(tracks, ids, injected, should_update_position, at, atc) ==
    IF ids = {}
    THEN [lines |-> <<>>, injected |-> injected, tracks |-> tracks]
    ELSE LET id == CHOOSE x \in ids : TRUE
             tracked == IF id \in DOMAIN injected THEN injected[id]
                        ELSE TrackedDataDefault
             one == AircraftLines(tracks[id], tracked, at, atc)
             rest == AllAircraftLinesEveryIteration(
                        [tracks EXCEPT ![id] = one.aircraft], ids \ {id},
                        MapInsert(injected, id, one.tracked),
                        should_update_position, at, atc)
         IN [lines |-> one.lines \o rest.lines, injected |-> rest.injected,
             tracks |-> rest.tracks]

\* The loop over get_aircraft_data(): every track gets an entry in injected,
\* and its lines when positions are due.
RECURSIVE AllAircraftLines(_, _, _, _, _, _)
AllAircraftLines(tracks, ids, injected, should_update_position, at, atc) ==
    IF ids = {}
    THEN [lines |-> <<>>, injected |-> injected, tracks |-> tracks]
    ELSE LET id == CHOOSE x \in ids : TRUE
             tracked == IF id \in DOMAIN injected THEN injected[id]
                        ELSE TrackedDataDefault
             one == IF should_update_position
                    THEN AircraftLines(tracks[id], tracked, at, atc)
                    ELSE [lines |-> <<>>, tracked |-> tracked,
                          aircraft |-> tracks[id]]
             rest == AllAircraftLines([tracks EXCEPT ![id] = one.aircraft],
                                      ids \ {id},
                                      MapInsert(injected, id, one.tracked),
                                      should_update_position, at, atc)
         IN [lines |-> one.lines \o rest.lines, injected |-> rest.injected,
             tracks |-> rest.tracks]

\* The packets a client may send.  An ATC query comes from a callsign and may
\* name a target (<<>> stands for None).
NoRequest == [type |-> "none"]

MetarRequest == [type |-> "metar", is_response |-> FALSE, payload |-> "KJFK"]

MetarResponse == [type |-> "metar", is_response |-> TRUE, payload |-> "KJFK"]

JFK_TWR == <<"J", "F", "K", "_", "T", "W", "R">>

\* A flight-plan query for a callsign.
FpQuery(callsign) == [type |-> "fp_query", callsign |-> callsign]

\* A controller asks to be validated, naming no target.
AtcQuery(from) == [type |-> "atc_query", from |-> from, target |-> <<>>]

\* Tracker::get_data_for_callsign: the track as a sequence of zero or one.
GetDataForCallsign(t, callsign) ==
    IF callsign \in DOMAIN t.callsign_map
    THEN IF t.callsign_map[callsign] \in DOMAIN t.tracking
         THEN <<t.tracking[t.callsign_map[callsign]]>>
         ELSE <<>>
    ELSE <<>>

\* Mutant: the reply to a flight-plan query goes to every client.
HandlePacketToAll(r, c, packet, t) ==
    CASE packet.type = "none" -> r
      [] packet.type = "metar" ->
            IF packet.is_response
            THEN r
            ELSE [r EXCEPT !.wx_jobs = Append(@, packet.payload)]
      [] packet.type = "plane_info" ->
            LET data == GetDataForCallsign(t, packet.to)
            IN IF data = <<>>
               THEN r
               ELSE [r EXCEPT !.replied = @ \cup
                        {<<c, BuildPlaneInfoString(packet.to, r.callsigns[c],
                                                   data[1].ac_data)>>}]
      [] packet.type = "fp_query" ->
            LET data == GetDataForCallsign(t, packet.callsign)
            IN IF data = <<>>
               THEN r
               ELSE IF data[1].fp = NoFp
               THEN r
               ELSE [r EXCEPT !.replied = @ \cup
                        {<<d, BuildFlightplanString(data[1].fp, data[1].ac_data)>> :
                            d \in DOMAIN r.callsigns}]
      [] packet.type = "atc_query" ->
            [r EXCEPT
                !.callsigns[c] = packet.from,
                !.replied = @ \cup
                    {<<c, IF packet.target # <<>>
                          THEN BuildValidateAtcStringWithCallsign(packet.target)
                          ELSE BuildValidateAtcStringWithoutCallsign(packet.from)>>},
                !.atc = IF \E i \in 1..Len(packet.from) : packet.from[i] = "_"
                        THEN packet.from ELSE @]

\* Mutant: a METAR packet asks for the weather whether or not it is a
\* response.
HandlePacketAnyMetar(r, c, packet, t) ==
    CASE packet.type = "none" -> r
      [] packet.type = "metar" ->
            [r EXCEPT !.wx_jobs = Append(@, packet.payload)]
      [] packet.type = "plane_info" ->
            LET data == GetDataForCallsign(t, packet.to)
            IN IF data = <<>>
               THEN r
               ELSE [r EXCEPT !.replied = @ \cup
                        {<<c, BuildPlaneInfoString(packet.to, r.callsigns[c],
                                                   data[1].ac_data)>>}]
      [] packet.type = "fp_query" ->
            LET data == GetDataForCallsign(t, packet.callsign)
            IN IF data = <<>>
               THEN r
               ELSE IF data[1].fp = NoFp
               THEN r
               ELSE [r EXCEPT !.replied = @ \cup
                        {<<c, BuildFlightplanString(data[1].fp, data[1].ac_data)>>}]
      [] packet.type = "atc_query" ->
            [r EXCEPT
                !.callsigns[c] = packet.from,
                !.replied = @ \cup
                    {<<c, IF packet.target # <<>>
                          THEN BuildValidateAtcStringWithCallsign(packet.target)
                          ELSE BuildValidateAtcStringWithoutCallsign(packet.from)>>},
                !.atc = IF \E i \in 1..Len(packet.from) : packet.from[i] = "_"
                        THEN packet.from ELSE @]

\* The match on one packet from client c.  r carries the clients' callsigns,
\* the current ATC callsign, the weather jobs and the replies written.
HandlePacket(r, c, packet, t) ==
    CASE packet.type = "none" -> r
      [] packet.type = "metar" ->
            IF packet.is_response
            THEN r
            ELSE [r EXCEPT !.wx_jobs = Append(@, packet.payload)]
      [] packet.type = "plane_info" ->
            LET data == GetDataForCallsign(t, packet.to)
            IN IF data = <<>>
               THEN r
               ELSE [r EXCEPT !.replied = @ \cup
                        {<<c, BuildPlaneInfoString(packet.to, r.callsigns[c],
                                                   data[1].ac_data)>>}]
      [] packet.type = "fp_query" ->
            LET data == GetDataForCallsign(t, packet.callsign)
            IN IF data = <<>>
               THEN r
               ELSE IF data[1].fp = NoFp
               THEN r
               ELSE [r EXCEPT !.replied = @ \cup
                        {<<c, BuildFlightplanString(data[1].fp, data[1].ac_data)>>}]
      [] packet.type = "atc_query" ->
            [r EXCEPT
                !.callsigns[c] = packet.from,
                !.replied = @ \cup
                    {<<c, IF packet.target # <<>>
                          THEN BuildValidateAtcStringWithCallsign(packet.target)
                          ELSE BuildValidateAtcStringWithoutCallsign(packet.from)>>},
                !.atc = IF \E i \in 1..Len(packet.from) : packet.from[i] = "_"
                        THEN packet.from ELSE @]

\* The loop over the clients: each client's packet, in the order of the list.
RECURSIVE HandleClients(_, _, _, _)
HandleClients(r, strs, packets, t) ==
    IF strs = <<>>
    THEN r
    ELSE HandleClients(IF Head(strs) \in DOMAIN packets
                       THEN HandlePacket(r, Head(strs), packets[Head(strs)], t)
                       ELSE r,
                       Tail(strs), packets, t)

(***************************************************************************)
(* State machine                                                           *)
(***************************************************************************)
Self ==
    [buffer |-> buffer, is_buffering |-> is_buffering, tracking |-> tracking,
     callsign_map |-> callsign_map, fp_jobs |-> fp_jobs,
     fp_results |-> fp_results, now |-> clock, log |-> last_log]

\* The tracker's state after an operation (its result is worked out once);
\* the requests the operation added to the job deque are recorded.
Becomes(t) ==
    \E after \in {t} :
        /\ buffer' = after.buffer
        /\ is_buffering' = after.is_buffering
        /\ tracking' = after.tracking
        /\ callsign_map' = after.callsign_map
        /\ fp_jobs' = after.fp_jobs
        /\ fp_results' = after.fp_results
        /\ last_log' = after.log
        /\ requested' = requested \cup
                {after.fp_jobs[i].callsign :
                    i \in (Len(fp_jobs) + 1)..Len(after.fp_jobs)}

\* Option<Instant>::None
NoTimer == -1

\* Tracker::new, and main before its first loop iteration, with
\* config.delay = d.
InitWith(d) ==
    /\ buffer = <<>>
    /\ is_buffering = FALSE
    /\ tracking = EmptyMap
    /\ callsign_map = EmptyMap
    /\ fp_jobs = <<>>
    /\ fp_working = <<>>
    /\ fp_results = <<>>
    /\ clock = 0
    /\ time = 0
    /\ last_log = {}
    /\ requested = {}
    /\ fetched = <<>>
    /\ applied = <<>>
    /\ given = 0
    /\ returned = 0
    /\ streams = <<>>
    /\ open = {}
    /\ did_init = FALSE
    /\ timer = NoTimer
    /\ buffer_timer = 0
    /\ delay = d
    /\ injected_tracker = EmptyMap
    /\ current_atc_callsign = <<>>
    /\ stream_callsign = EmptyMap
    /\ wx_jobs = <<>>
    /\ wx_results = <<>>
    /\ connections = 0
    /\ sent = {}
    /\ wrote = <<>>
    /\ replied = {}
    /\ dropped = {}
    /\ accepted_at = NoTimer

\* The default configuration: no delay.
Init == InitWith(0)

\* Any configured delay up to MaxDelay seconds.
InitSession == \E d \in Delays : InitWith(d)

\* Tracker::step more than POLL_RATE seconds after the last poll: the providers
\* are asked.
StepPoll(answers) ==
    \E results \in answers :
        /\ Becomes(TrackerStep(Self, TRUE, results))
        /\ UNCHANGED <<fp_working, clock, time, fetched, applied, given, returned, session>>

\* Tracker::step sooner than that.
StepIdle ==
    /\ Becomes(TrackerStep(Self, FALSE, <<>>))
    /\ UNCHANGED <<fp_working, clock, time, fetched, applied, given, returned, session>>

\* StepPoll, recording what was fetched and what was applied.
StepPollRecorded(answers) ==
    /\ Len(fetched) < MaxPolls
    /\ \E results \in answers :
        /\ Becomes(TrackerStep(Self, TRUE, results))
        /\ fetched' = Append(fetched, AllData(results))
        /\ applied' = applied \o GetNextAircraftUpdate(Self, results).aircraft
        /\ UNCHANGED <<fp_working, clock, time, given, returned, session>>

StartBuffering ==
    /\ is_buffering' = TRUE
    /\ UNCHANGED <<buffer, tracking, callsign_map, fp_jobs, fp_working,
                   fp_results, clock, time, last_log, requested, fetched, applied, given, returned, session>>

StopBuffering ==
    /\ is_buffering' = FALSE
    /\ UNCHANGED <<buffer, tracking, callsign_map, fp_jobs, fp_working,
                   fp_results, clock, time, last_log, requested, fetched, applied, given, returned, session>>

\* A second passes, up to the given end of the run.
TickTo(end) ==
    /\ clock < end
    /\ clock' = clock + 1
    /\ UNCHANGED <<buffer, is_buffering, tracking, callsign_map, fp_jobs, fp_working,
                   fp_results, time, last_log, requested, fetched, applied, given, returned, session>>

Tick == TickTo(MaxClock)

\* Tracker::step on the wall clock: the providers are asked when more than
\* POLL_RATE whole seconds have passed since the last poll.
StepTimed(answers) ==
    IF clock - time > POLL_RATE
    THEN /\ \E results \in answers : Becomes(TrackerStep(Self, TRUE, results))
         /\ time' = clock
         /\ UNCHANGED <<fp_working, clock, fetched, applied, given, returned, session>>
    ELSE /\ Becomes(TrackerStep(Self, FALSE, <<>>))
         /\ UNCHANGED <<fp_working, clock, time, fetched, applied, given, returned, session>>

\* Tracker::step with a poll, while there is room for one more request.
StepPollFp ==
    /\ Outstanding < MaxRequests
    /\ StepPoll(FpAnswers)

\* A worker thread takes the oldest request (Stealer::steal of a FIFO worker).
WorkerSteal ==
    /\ fp_jobs # <<>>
    /\ Len(fp_working) < NumThreads
    /\ fp_working' = Append(fp_working, Head(fp_jobs))
    /\ fp_jobs' = Tail(fp_jobs)
    /\ UNCHANGED <<buffer, is_buffering, tracking, callsign_map, fp_results,
                   clock, time, last_log, requested, fetched, applied, given, returned, session>>

\* Providers' request pools: Request::new(1).
SingleThread == 1

\* Mutant: a second thread takes requests from the one-worker pool.
SingleWorkerStealTwice ==
    /\ fp_jobs # <<>>
    /\ Len(fp_working) < SingleThread + 1
    /\ fp_working' = Append(fp_working, Head(fp_jobs))
    /\ fp_jobs' = Tail(fp_jobs)
    /\ UNCHANGED <<buffer, is_buffering, tracking, callsign_map, fp_results,
                   clock, time, last_log, requested, fetched, applied, given, returned, session>>

\* The thread of a pool with one worker takes the oldest request; it takes
\* the next only after it has sent the result.
SingleWorkerSteal ==
    /\ fp_jobs # <<>>
    /\ Len(fp_working) < SingleThread
    /\ fp_working' = Append(fp_working, Head(fp_jobs))
    /\ fp_jobs' = Tail(fp_jobs)
    /\ UNCHANGED <<buffer, is_buffering, tracking, callsign_map, fp_results,
                   clock, time, last_log, requested, fetched, applied, given, returned, session>>

\* Mutant: a worker thread takes a request and sends nothing.
WorkerAnswerDropping ==
    \E i \in 1..Len(fp_working) :
        /\ fp_working' = RemoveAt(fp_working, i)
        /\ UNCHANGED <<buffer, is_buffering, tracking, callsign_map, fp_jobs,
                       fp_results, clock, time, last_log, requested, fetched, applied, given,
                       returned, session>>

\* A worker thread finishes its request and sends the result.
WorkerAnswer ==
    \E i \in 1..Len(fp_working) :
        \E result \in FlightPlanResults(fp_working[i]) :
            /\ fp_results' = Append(fp_results, result)
            /\ fp_working' = RemoveAt(fp_working, i)
            /\ UNCHANGED <<buffer, is_buffering, tracking, callsign_map, fp_jobs,
                           clock, time, last_log, requested, fetched, applied, given, returned, session>>

\* Request::give_job: the job is pushed onto the deque.
GiveJob ==
    /\ given < Len(PoolJobs)
    /\ fp_jobs' = Append(fp_jobs, PoolJobs[given + 1])
    /\ given' = given + 1
    /\ UNCHANGED <<buffer, is_buffering, tracking, callsign_map, fp_working,
                   fp_results, clock, time, last_log, requested, fetched, applied, returned,
                   session>>

\* Request::get_next: try_recv takes the oldest result if there is one and
\* returns None otherwise.
GetNext ==
    /\ fp_results' = IF fp_results # <<>> THEN Tail(fp_results) ELSE fp_results
    /\ returned' = IF fp_results # <<>> THEN returned + 1 ELSE returned
    /\ UNCHANGED <<buffer, is_buffering, tracking, callsign_map, fp_jobs,
                   fp_working, clock, time, last_log, requested, fetched, applied, given,
                   session>>

\* What the clients send within one iteration (10 ms): at most one of them
\* sends a packet.
OnePacket(readers, packets) ==
    {f \in [readers -> packets \cup {NoRequest}] :
        Cardinality({c \in readers : f[c] # NoRequest}) <= 1}

\* Mutant: the tracker is kept from one session to the next.
EndSessionKeepingTracker ==
    /\ Becomes(Self)
    /\ fp_working' = fp_working
    /\ time' = time
    /\ streams' = <<>>
    /\ did_init' = FALSE
    /\ timer' = NoTimer
    /\ buffer_timer' = clock
    /\ injected_tracker' = EmptyMap
    /\ current_atc_callsign' = <<>>
    /\ stream_callsign' = EmptyMap
    /\ sent' = {}
    /\ wrote' = <<>>
    /\ replied' = {}
    /\ accepted_at' = NoTimer
    /\ UNCHANGED <<clock, fetched, applied, given, returned, open, delay, wx_jobs,
                   wx_results, dropped>>

\* The end of a session (break 'main) and the set-up of the next: a new
\* Tracker, no clients, the timers reset.  The weather pool is kept.
EndSession ==
    /\ Becomes([buffer |-> <<>>, is_buffering |-> FALSE, tracking |-> EmptyMap,
                callsign_map |-> EmptyMap, fp_jobs |-> <<>>, fp_results |-> <<>>,
                log |-> {}])
    /\ fp_working' = <<>>
    /\ time' = clock
    /\ streams' = <<>>
    /\ did_init' = FALSE
    /\ timer' = NoTimer
    /\ buffer_timer' = clock
    /\ injected_tracker' = EmptyMap
    /\ current_atc_callsign' = <<>>
    /\ stream_callsign' = EmptyMap
    /\ sent' = {}
    /\ wrote' = <<>>
    /\ replied' = {}
    /\ accepted_at' = NoTimer
    /\ UNCHANGED <<clock, fetched, applied, given, returned, open, delay, wx_jobs,
                   wx_results, dropped>>

\* The session's surroundings: what the providers may answer, where a client's
\* write may fail, and what a client may send in one iteration.
SessionEnv ==
    [answers |-> SessionAnswers, fails |-> FailPoints,
     packets |-> {NoRequest, MetarRequest}, clients |-> Clients]

\* One iteration of 'main with at least one client: Tracker::step, the
\* position cadence, the buffer countdown, the clients' requests, the METAR
\* broadcast.  strs is the client list after accept and first tells whether
\* the session's first client was just accepted.  Each intermediate result is
\* worked out once and named.
\* Mutant: the entries of dropped aircraft stay in the injected-state map.
RemoveDroppedNever(injected, tracks) == injected

\* "Remove dropped off radar aircraft": the entries of the injected-state map
\* whose hex the tracker no longer has are removed.
RemoveDropped(injected, tracks) ==
    [id \in DOMAIN injected \cap DOMAIN tracks |-> injected[id]]

Iterate(strs, first, env) ==
    LET due == clock - time > POLL_RATE
        started == IF first THEN [Self EXCEPT !.is_buffering = TRUE] ELSE Self
        should_update_position == timer = NoTimer \/ clock - timer >= POSITION_RATE
        opened == open \cup (Range(strs) \ Range(streams))
        callsigns == [c \in Range(strs) |->
                        IF c \in DOMAIN stream_callsign
                        THEN stream_callsign[c] ELSE <<>>]
    IN \E results \in (IF due THEN env.answers ELSE {<<>>}) :
       \E fail_at \in {f \in [Range(strs) -> env.fails] :
                        \A c \in Range(strs) \ opened : f[c] = 1} :
       \E stepped \in {TrackerStep(started, due, results)} :
       \E ac \in {AllAircraftLines(stepped.tracking, DOMAIN stepped.tracking,
                                   injected_tracker, should_update_position,
                                   clock, current_atc_callsign)} :
       \E w1 \in {WriteLines([streams |-> strs, n |-> 0, sent |-> {},
                              dropped |-> dropped], ac.lines, fail_at)} :
       \E managed \in {[stepped EXCEPT
                            !.tracking = ac.tracks,
                            !.is_buffering =
                                IF /\ should_update_position
                                   /\ stepped.is_buffering
                                   /\ clock - buffer_timer >= delay
                                THEN FALSE ELSE @]} :
       \E packets \in OnePacket(Range(w1.streams) \cap opened, env.packets) :
       \E r \in {HandleClients([callsigns |-> callsigns,
                                atc |-> current_atc_callsign,
                                wx_jobs |-> wx_jobs, replied |-> {}],
                               w1.streams, packets, managed)} :
        LET metar == IF wx_results # <<>> /\ Head(wx_results).ok
                     THEN <<BuildMetarString(r.atc, Head(wx_results).metar)>>
                     ELSE <<>>
        IN \E w2 \in {WriteLines(w1, metar, fail_at)} :
           /\ Len(r.wx_jobs) > Len(wx_jobs) =>
                Len(r.wx_jobs) + Len(wx_results) <= MaxMetar
           /\ Len(managed.fp_jobs) > Len(fp_jobs) => Outstanding < MaxRequests
           /\ Becomes(managed)
           /\ time' = IF due THEN clock ELSE time
           /\ streams' = w2.streams
           /\ sent' = w2.sent
           /\ dropped' = w2.dropped
           /\ did_init' = TRUE
           /\ timer' = IF should_update_position THEN clock ELSE timer
           /\ injected_tracker' = RemoveDropped(ac.injected, stepped.tracking)
           /\ current_atc_callsign' = r.atc
           /\ stream_callsign' = [c \in Range(w2.streams) |-> r.callsigns[c]]
           /\ wrote' = ac.lines \o metar
           /\ replied' = r.replied
           /\ wx_jobs' = r.wx_jobs
           /\ wx_results' = IF wx_results # <<>> THEN Tail(wx_results)
                            ELSE wx_results
           /\ accepted_at' = IF first THEN clock ELSE accepted_at
           /\ UNCHANGED <<fp_working, clock, fetched, applied, given, returned,
                          buffer_timer, delay>>

\* One iteration of 'main: accept, then the session-end test, then the rest.
MainLoopIn(env) ==
    \E conn \in (IF connections < Len(env.clients) THEN BOOLEAN ELSE {FALSE}) :
        LET id == IF conn THEN env.clients[connections + 1] ELSE ""
            strs == IF conn THEN Append(streams, id) ELSE streams
        IN /\ connections' = IF conn THEN connections + 1 ELSE connections
           /\ IF strs = <<>>
              THEN IF did_init
                   THEN EndSession
                   ELSE UNCHANGED <<buffer, is_buffering, tracking, callsign_map,
                                    fp_jobs, fp_working, fp_results, clock, time,
                                    last_log, requested, fetched, applied, given, returned,
                                    streams, open,
                                    did_init, timer, buffer_timer, delay,
                                    injected_tracker, current_atc_callsign,
                                    stream_callsign, wx_jobs, wx_results, sent,
                                    wrote, replied, dropped, accepted_at>>
              ELSE /\ open' = IF conn THEN open \cup {id} ELSE open
                   /\ Iterate(strs, conn /\ ~did_init, env)

MainLoop == MainLoopIn(SessionEnv)

\* The surroundings of a session whose clients stay: every write succeeds,
\* and a client may ask for a flight plan or to be validated as a controller.
TrafficEnv ==
    [answers |-> TrafficAnswers, fails |-> {0},
     packets |-> {NoRequest, FpQuery(CS_AAL55), AtcQuery(JFK_TWR)},
     clients |-> Clients]

MainLoopTraffic == MainLoopIn(TrafficEnv)

TrafficTick == TickTo(MaxTrafficClock)

\* The surroundings of a session with no traffic in range, whose clients ask
\* for the weather, send weather of their own, or are validated as controllers.
WeatherEnv ==
    [answers |-> FetchResults([p \in 1..NumProviders |-> ProviderResults({})]),
     fails |-> {0, 1},
     packets |-> {NoRequest, MetarRequest, MetarResponse, AtcQuery(JFK_TWR)},
     clients |-> Clients]

MainLoopWeather == MainLoopIn(WeatherEnv)

WeatherTick == TickTo(MaxWeatherClock)

\* The surroundings of a session with one silent client and an aircraft on
\* any heading.
HeadingEnv ==
    [answers |-> HeadingAnswers, fails |-> {0}, packets |-> {NoRequest},
     clients |-> <<Clients[1]>>]

MainLoopHeading == MainLoopIn(HeadingEnv)

HeadingTick == TickTo(MaxHeadingClock)

\* The surroundings of a session with an airliner in range and one silent
\* client, which may leave.
RestartEnv ==
    [answers |-> ControllerAnswers, fails |-> {0, 1}, packets |-> {NoRequest},
     clients |-> <<Clients[1]>>]

MainLoopRestart == MainLoopIn(RestartEnv)

RestartTick == TickTo(MaxRestartClock)

\* The surroundings of a session with one client that stays and sends nothing.
ReckoningEnv ==
    [answers |-> ReckoningAnswers, fails |-> {0}, packets |-> {NoRequest},
     clients |-> <<Clients[1]>>]

MainLoopReckoning == MainLoopIn(ReckoningEnv)

ReckoningTick == TickTo(MaxReckoningClock)

\* The surroundings of a session with one client, a controller, that stays.
ControllerEnv ==
    [answers |-> ControllerAnswers, fails |-> {0},
     packets |-> {NoRequest, AtcQuery(JFK_TWR)}, clients |-> <<Clients[1]>>]

MainLoopController == MainLoopIn(ControllerEnv)

ControllerTick == TickTo(MaxControllerClock)

SessionTick == TickTo(MaxSessionClock)

\* A client closes its end of the connection.
ClientCloses ==
    \E c \in open :
        /\ open' = open \ {c}
        /\ UNCHANGED <<buffer, is_buffering, tracking, callsign_map, fp_jobs,
                       fp_working, fp_results, clock, time, last_log, requested, fetched,
                       applied, given, returned, streams, did_init, timer,
                       buffer_timer, delay,
                       injected_tracker, current_atc_callsign, stream_callsign,
                       wx_jobs, wx_results, connections, sent, wrote,
                       replied, dropped, accepted_at>>

\* The weather worker thread takes the oldest request and sends its result.
WeatherWorker ==
    /\ wx_jobs # <<>>
    /\ \E result \in MetarResults :
        /\ wx_results' = Append(wx_results, result)
        /\ wx_jobs' = Tail(wx_jobs)
    /\ UNCHANGED <<buffer, is_buffering, tracking, callsign_map, fp_jobs,
                   fp_working, fp_results, clock, time, last_log, requested, fetched,
                   applied, given, returned, streams, open, did_init, timer,
                   buffer_timer, delay,
                   injected_tracker, current_atc_callsign, stream_callsign,
                   connections, sent, wrote, replied, dropped, accepted_at>>

\* Admission and identity: any callsigns, the tracker never buffering.
Next ==
    \/ StepPoll(AdmissionAnswers)
    \/ StepIdle

Spec == Init /\ [][Next]_vars

\* Position updates and the altitude band: one aircraft, any altitude and
\* timestamp.
NextKinematics ==
    \/ StepPoll(KinematicsAnswers)
    \/ StepIdle

SpecKinematics == Init /\ [][NextKinematics]_vars

\* The delay buffer: polls interleaved with start_buffering and stop_buffering.
NextBuffer ==
    \/ StepPollRecorded(BufferAnswers)
    \/ StepIdle
    \/ StartBuffering
    \/ StopBuffering

SpecBuffer == Init /\ [][NextBuffer]_vars

\* Eviction: two aircraft, reports that the filters reject.
NextEviction ==
    \/ StepPoll(EvictionAnswers)
    \/ StepIdle

SpecEviction == Init /\ [][NextEviction]_vars

\* Ageing: one aircraft on the wall clock.
NextAging ==
    \/ StepTimed(AgingAnswers)
    \/ Tick

SpecAging == Init /\ [][NextAging]_vars

UpdateTick == TickTo(MaxUpdateClock)

\* Position updates: one aircraft on the wall clock, moving between polls.
NextUpdate ==
    \/ StepTimed(UpdateAnswers)
    \/ UpdateTick

SpecUpdate == Init /\ [][NextUpdate]_vars

\* The session server: clients that come and go, on the wall clock.
NextSession ==
    \/ MainLoop
    \/ ClientCloses
    \/ WeatherWorker
    \/ SessionTick

SpecSession == InitSession /\ [][NextSession]_vars

\* The session loop never stops iterating (it sleeps 10 ms and goes on).
SpecSessionFair == SpecSession /\ WF_vars(MainLoop)

\* The lines about a track: two aircraft that come and go, the flight-plan
\* worker threads, and clients that stay and ask.
NextTraffic ==
    \/ MainLoopTraffic
    \/ WorkerSteal
    \/ WorkerAnswer
    \/ TrafficTick

SpecTraffic == Init /\ [][NextTraffic]_vars

\* The weather: clients that ask for METARs, and the weather worker thread.
NextWeather ==
    \/ MainLoopWeather
    \/ ClientCloses
    \/ WeatherWorker
    \/ WeatherTick

SpecWeather == Init /\ [][NextWeather]_vars

\* Headings: one aircraft on any heading, up to its first position line.
NextHeading ==
    \/ MainLoopHeading
    \/ HeadingTick

SpecHeading == Init /\ [][NextHeading]_vars

\* A session that ends while flight plans are being fetched.
NextRestart ==
    \/ MainLoopRestart
    \/ ClientCloses
    \/ WorkerSteal
    \/ WorkerAnswer
    \/ RestartTick

SpecRestart == Init /\ [][NextRestart]_vars

\* Dead reckoning: one aircraft and one silent client, for half a minute.
NextReckoning ==
    \/ MainLoopReckoning
    \/ ReckoningTick

SpecReckoning == Init /\ [][NextReckoning]_vars

\* The same with one client, a controller, for longer.
NextController ==
    \/ MainLoopController
    \/ WorkerSteal
    \/ WorkerAnswer
    \/ ControllerTick

SpecController == Init /\ [][NextController]_vars

\* Flight plans: an airliner that comes and goes, and the worker threads.
NextFp ==
    \/ StepPollFp
    \/ StepIdle
    \/ WorkerSteal
    \/ WorkerAnswer

SpecFp == Init /\ [][NextFp]_vars

\* A request pool on its own: jobs given by the owner, taken and answered by
\* the worker threads, results polled by the owner.
NextPool ==
    \/ GiveJob
    \/ WorkerSteal
    \/ WorkerAnswer
    \/ GetNext

\* The worker threads loop until the pool is stopped, and the owner polls in
\* every iteration of its loop.
SpecPool ==
    /\ Init
    /\ [][NextPool]_vars
    /\ WF_vars(WorkerSteal)
    /\ WF_vars(WorkerAnswer)
    /\ WF_vars(GetNext)

\* A request pool with one worker thread, on its own.
NextSinglePool ==
    \/ GiveJob
    \/ SingleWorkerSteal
    \/ WorkerAnswer
    \/ GetNext

SpecSinglePool == Init /\ [][NextSinglePool]_vars

(***************************************************************************)
(* Properties                                                              *)
(***************************************************************************)
CallsignOf(h) == tracking[h].ac_data.callsign

\* C1: the callsign index and the track map are mutual inverses: every live
\* track's callsign is indexed to its hex, and every index entry names a live
\* track with that callsign.
IndexInvertsTracks ==
    /\ \A h \in DOMAIN tracking :
        /\ CallsignOf(h) \in DOMAIN callsign_map
        /\ callsign_map[CallsignOf(h)] = h
    /\ \A c \in DOMAIN callsign_map :
        /\ callsign_map[c] \in DOMAIN tracking
        /\ CallsignOf(callsign_map[c]) = c

\* C1 witness: two tracks live, each indexed.
TwoTracksIndexed ==
    /\ Cardinality(DOMAIN tracking) = 2
    /\ Cardinality(DOMAIN callsign_map) = 2

\* C2: no two live tracks share a callsign, and a hex whose snapshot was
\* refused because its callsign was taken has no track and no index entry.
CallsignsUnique ==
    /\ \A h1, h2 \in DOMAIN tracking : h1 # h2 => CallsignOf(h1) # CallsignOf(h2)
    /\ \A h \in Hexes :
        <<h, "taken">> \in last_log =>
            /\ h \notin DOMAIN tracking
            /\ \A c \in DOMAIN callsign_map : callsign_map[c] # h

\* C2 witness: a snapshot was refused for a taken callsign while the holder of
\* the callsign is tracked.
TakenCallsignRefused ==
    /\ \E h \in Hexes : <<h, "taken">> \in last_log
    /\ Cardinality(DOMAIN tracking) = 1

\* C3: over a track's lifetime last_position_update never decreases (a step
\* cannot evict and re-create a track, so a hex tracked before and after a
\* step is the same track).
TimestampNeverDecreases ==
    [][\A h \in DOMAIN tracking \cap DOMAIN tracking' :
          tracking'[h].last_position_update >= tracking[h].last_position_update]_vars

\* C3 witness: a track updated past its first timestamp was offered an
\* older-or-equal snapshot.
StaleSnapshotOffered ==
    \E h \in DOMAIN tracking :
        /\ tracking[h].last_position_update >= 2
        /\ <<h, "stale">> \in last_log

\* C4: no live track's stored altitude is outside [floor, ceiling] (the stored
\* snapshot is the one that created the track).
AltitudeInBand ==
    \A h \in DOMAIN tracking :
        /\ tracking[h].ac_data.altitude >= floor
        /\ tracking[h].ac_data.altitude <= ceiling

\* C4 witness: a snapshot outside the band was applied and its hex has no track.
OutOfBandRefused ==
    \E h \in Hexes : <<h, "alt">> \in last_log /\ h \notin DOMAIN tracking

\* C5: while the tracker is buffering no batch is applied, and a poll appends
\* its batch to the buffer and leaves the track map and the callsign index as
\* they were.
BufferingOnlyQueues ==
    [][is_buffering =>
          /\ applied' = applied
          /\ fetched' # fetched =>
                /\ buffer' = Append(buffer, fetched'[Len(fetched')])
                /\ tracking' = tracking
                /\ callsign_map' = callsign_map]_vars

\* C5 witness: two batches queued while buffering, beside a track created
\* before buffering began.
TwoQueuedWhileBuffering ==
    /\ is_buffering
    /\ Len(buffer) >= 2
    /\ DOMAIN tracking # {}

\* C6: the batches applied are, in order, the first batches fetched, and the
\* buffer holds the rest in order: none skipped, none applied twice.
AppliedInFetchOrder == fetched = applied \o buffer

\* C6 witness: two different buffered batches have been replayed and two more
\* wait.
TwoReplayedInOrder ==
    /\ ~is_buffering
    /\ Len(applied) = 2
    /\ applied[1] # applied[2]
    /\ Len(buffer) = 2

\* C7: while buffering stays false a step applies at most one batch, a poll
\* applies exactly one, and the number of batches waiting does not change.
ReplayLagFixed ==
    [][(~is_buffering /\ ~is_buffering') =>
          /\ Len(buffer') = Len(buffer)
          /\ Len(applied') <= Len(applied) + 1
          /\ fetched' # fetched => Len(applied') = Len(applied) + 1]_vars

\* C7 witness: the replay runs three batches behind.
ReplayRunsBehind ==
    /\ ~is_buffering
    /\ Len(buffer) = 3
    /\ Len(applied) = 1

InBand(s) == s.altitude >= floor /\ s.altitude <= ceiling

\* C8: a snapshot of an untracked hex with a non-blank callsign not in the
\* index, inside the band, creates a track when its callsign is longer than 4
\* or matches the registration pattern.
RegistrationOrLongAdmitted ==
    \A s \in AdmissionPool(1) :
        ( /\ s.id \notin DOMAIN tracking
          /\ Trim(s.callsign) # <<>>
          /\ InBand(s)
          /\ s.callsign \notin DOMAIN callsign_map
          /\ (Len(s.callsign) > 4 \/ IsRegistration(s.callsign)) )
        => s.id \in DOMAIN ApplyBatch(Self, <<s>>).tracking

ShortUnregistered(c) == Len(c) <= 4 /\ ~IsRegistration(c)

\* C9: no track and no index entry has a callsign of length 4 or less that
\* does not match the registration pattern, and a hex whose snapshot carried
\* one has no track.
ShortCallsignNeverTracked ==
    /\ \A h \in DOMAIN tracking : ~ShortUnregistered(CallsignOf(h))
    /\ \A c \in DOMAIN callsign_map : ~ShortUnregistered(c)
    /\ \A h \in Hexes : <<h, "short">> \in last_log => h \notin DOMAIN tracking

\* C9 witness: both hexes carried a short unregistered callsign in one batch
\* and the track map and the index are empty.
BothShortNoneTracked ==
    /\ \A h \in Hexes : <<h, "short">> \in last_log
    /\ DOMAIN tracking = {}
    /\ DOMAIN callsign_map = {}

\* The batch without the snapshots update_aircraft is to ignore: those of a hex
\* that an earlier snapshot of the batch, past the callsign and altitude
\* filters, has already claimed.
Accepted(s) == Trim(s.callsign) # <<>> /\ InBand(s)

FirstPerHex(batch) ==
    LET keep == {i \in 1..Len(batch) :
                    \A j \in 1..(i - 1) :
                        ~(batch[j].id = batch[i].id /\ Accepted(batch[j]))}
        F[n \in 0..Len(batch)] ==
            IF n = 0 THEN <<>>
            ELSE IF n \in keep THEN Append(F[n - 1], batch[n]) ELSE F[n - 1]
    IN F[Len(batch)]

\* The batches with such a repeat, each beside what it is without them.
RepeatingBatches ==
    {b \in {<<AllData(r), FirstPerHex(AllData(r))>> : r \in AdmissionAnswers} :
        b[1] # b[2]}

Outcome(t) == <<t.tracking, t.callsign_map, t.fp_jobs>>

JobsSubmitted(h) ==
    IF Len(fp_jobs') > Len(fp_jobs)
    THEN Cardinality({i \in (Len(fp_jobs) + 1)..Len(fp_jobs') : fp_jobs'[i].id = h})
    ELSE 0

\* C11: within a track's lifetime fp_did_try_update only goes from false to
\* true, and at most one flight-plan request is submitted for the track: a step
\* submits at most one, only for a live track whose flag was false and is true
\* afterwards, whatever the answers to earlier requests were.
FpAttemptedOnceOnly ==
    [][\A h \in Hexes :
        /\ JobsSubmitted(h) <= 1
        /\ JobsSubmitted(h) = 1 =>
                h \in DOMAIN tracking' /\ tracking'[h].fp_did_try_update
        /\ (h \in DOMAIN tracking /\ h \in DOMAIN tracking'
                /\ tracking[h].fp_did_try_update) =>
                tracking'[h].fp_did_try_update /\ JobsSubmitted(h) = 0]_vars

\* An airliner whose request was answered with an error: the flag is set, no
\* plan is attached, nothing is outstanding, and a later batch has reported it
\* again.
FpErrorNotRetried ==
    \E h \in DOMAIN tracking :
        /\ IsAirline(CallsignOf(h))
        /\ tracking[h].fp_did_try_update
        /\ tracking[h].fp = NoFp
        /\ Outstanding = 0
        /\ <<h, "stale">> \in last_log

\* C12: when a snapshot with an airline callsign is admitted as a new track,
\* the flag is set and the request for (hex, callsign) is submitted in the step
\* that creates the track.
FpRequestedAtAdmission ==
    [][\A h \in Hexes :
        (h \notin DOMAIN tracking /\ h \in DOMAIN tracking'
            /\ IsAirline(tracking'[h].ac_data.callsign)) =>
            /\ tracking'[h].fp_did_try_update
            /\ JobsSubmitted(h) = 1]_vars

\* C13: a track's flight plan, once set, is never cleared or replaced while
\* the track lives.
FlightPlanSetOnce ==
    [][\A h \in Hexes :
        (h \in DOMAIN tracking /\ h \in DOMAIN tracking'
            /\ tracking[h].fp # NoFp) =>
            tracking'[h].fp = tracking[h].fp]_vars

\* The hexes of a batch with a snapshot past the callsign and altitude filters.
Processed(batch) ==
    {batch[i].id : i \in {j \in 1..Len(batch) : Accepted(batch[j])}}

\* The batches two providers can produce, each beside its processed hexes.
EvictionBatches ==
    {<<AllData(r), Processed(AllData(r))>> : r \in EvictionAnswers}

\* C14: after a batch is applied, the tracks are exactly among the processed
\* hexes: a track whose hex was not processed (not reported, or reported only
\* blank or out of band) is gone and so is its index entry, and a track whose
\* hex was processed is still there, unchanged in identity and still indexed.
UnprocessedEvicted ==
    \A b \in EvictionBatches :
        LET after == ApplyBatch(Self, b[1])
        IN /\ DOMAIN after.tracking \subseteq b[2]
           /\ \A h \in DOMAIN tracking :
                IF h \in b[2]
                THEN /\ h \in DOMAIN after.tracking
                     /\ after.tracking[h].ac_data = tracking[h].ac_data
                     /\ CallsignOf(h) \in DOMAIN after.callsign_map
                     /\ after.callsign_map[CallsignOf(h)] = h
                ELSE /\ h \notin DOMAIN after.tracking
                     /\ CallsignOf(h) \notin DOMAIN after.callsign_map

\* C14 witness: two tracks, and a batch that reports one of them above the
\* ceiling and the other well: applying it leaves the second only.
RejectedReportEvicts ==
    /\ Cardinality(DOMAIN tracking) = 2
    /\ \E b \in EvictionBatches :
        \E i \in 1..Len(b[1]) :
            /\ b[1][i].altitude > ceiling
            /\ b[1][i].id \notin b[2]
            /\ Cardinality(b[2]) = 1
            /\ DOMAIN ApplyBatch(Self, b[1]).tracking = b[2]
            /\ Cardinality(DOMAIN ApplyBatch(Self, b[1]).callsign_map) = 1

\* C15: a track whose last accepted position update is older than the horizon
\* is removed with its index entry (so that no position line follows), also
\* when the providers keep reporting the hex without a newer timestamp: after
\* a poll, no track and no index entry is left for a position that old.
AgedTrackEvicted ==
    [][time' # time =>
        /\ \A h \in DOMAIN tracking' :
            clock' - tracking'[h].at_last_position_update <= STALE_AFTER
        /\ \A c \in DOMAIN callsign_map' : callsign_map'[c] \in DOMAIN tracking']_vars

\* The tracker was buffering when this step's lines were written: it was
\* before the step, or the step accepted the session's first client.
BufferingAtCadence == is_buffering \/ (~did_init /\ did_init')

IsPositionLine(x) == x[2][1] = "@N"

\* C16: while the tracker is buffering no position line is written to any
\* client, whatever the delay, the polls and the connections.
NoPositionWhileBuffering ==
    [][BufferingAtCadence => \A x \in sent' : ~IsPositionLine(x)]_vars

\* C16 witness: a client is connected, the tracker is buffering with an
\* aircraft waiting in the buffer, the position cadence has just run, and
\* nothing was written.
BufferedAircraftNotShown ==
    /\ is_buffering
    /\ streams # <<>>
    /\ timer = clock
    /\ \E i \in 1..Len(buffer) : buffer[i] # <<>>
    /\ sent = {}

\* C17: buffering is not stopped before the configured delay has passed
\* since the session's first client was accepted.
BufferingLastsDelay ==
    [][(BufferingAtCadence /\ did_init' /\ ~is_buffering') =>
        clock' - accepted_at' >= delay]_vars

\* Every client has closed its end, at least one had connected, and nobody
\* else will connect.
AllClientsGone ==
    /\ did_init
    /\ streams # <<>>
    /\ Range(streams) \cap open = {}
    /\ connections = Len(Clients)

\* C18: once every connected client has disconnected, the session eventually
\* ends and the server waits for a connection again, whether or not there is
\* a track or a METAR to broadcast.
SessionEndsWhenAllGone == AllClientsGone ~> ~did_init

\* C19: a client whose broadcast write failed is removed from the client list
\* and never written to again; every other accepted client stays in the list
\* and gets every line of the iteration; and the session does not end while a
\* client is left.
FailedClientDropped ==
    [][/\ Range(streams') = {Clients[i] : i \in 1..connections'} \ dropped'
       /\ \A x \in sent' \ sent : x[1] \notin dropped
       /\ \A x \in sent' : \A d \in Range(streams') : <<d, x[2]>> \in sent'
       /\ (did_init /\ ~did_init') => streams = <<>>]_vars

\* C19 witness: the first client's write has failed; in a later iteration the
\* second client, still connected, was written to and the first was not.
SurvivorStillServed ==
    /\ dropped = {Clients[1]}
    /\ streams = <<Clients[2]>>
    /\ \E x \in sent : x[1] = Clients[2]
    /\ \A x \in sent : x[1] # Clients[1]

\* The batch a poll with these answers adds to the tracker's buffer.
PushedBatch(results) ==
    LET r == GetNextAircraftUpdate(Self, results)
        all == r.aircraft \o r.t.buffer
    IN all[Len(all)]

\* C20: when a provider's fetch fails, the poll cycle goes on without it and
\* its batch holds every snapshot of the providers that succeeded: in the
\* tracker's own loop over the providers, and in the provider pool's job.
FailedProviderSkipped ==
    \A results \in BufferAnswers :
        (\E q \in 1..NumProviders : ~results[q].ok) =>
            \A p \in 1..NumProviders :
                results[p].ok =>
                    \A i \in 1..Len(results[p].aircraft) :
                        /\ results[p].aircraft[i] \in Range(PushedBatch(results))
                        /\ ProvidersRun(results).ok
                        /\ results[p].aircraft[i].id \in
                               DOMAIN ProvidersRun(results).aircraft_map

\* C25: a snapshot of a tracked hex with a provider timestamp greater than the
\* track's last_position_update replaces the stored snapshot, rebuilds the
\* interpolator from its position, heading and speed, and sets
\* at_last_position_update to the time of the batch.
NewerSnapshotReplaces ==
    \A s \in UpdatePool(1) :
        (s.id \in DOMAIN tracking
            /\ s.timestamp > tracking[s.id].last_position_update) =>
            LET after == ApplyBatch(Self, <<s>>).tracking[s.id]
            IN /\ after.ac_data = s
               /\ after.position =
                    InterpolatePositionNew(s.latitude, s.longitude, s.heading,
                                           s.ground_speed, clock)
               /\ after.last_position_update = s.timestamp
               /\ after.at_last_position_update = clock

\* C26: a snapshot of a tracked hex with a provider timestamp less than or
\* equal to the track's last_position_update leaves the track's interpolator,
\* last_position_update and at_last_position_update as they were, and the
\* track is still there after the batch.
OlderSnapshotDropped ==
    \A s \in UpdatePool(1) :
        (s.id \in DOMAIN tracking
            /\ s.timestamp <= tracking[s.id].last_position_update) =>
            LET after == ApplyBatch(Self, <<s>>).tracking
            IN /\ s.id \in DOMAIN after
               /\ after[s.id].position = tracking[s.id].position
               /\ after[s.id].last_position_update =
                    tracking[s.id].last_position_update
               /\ after[s.id].at_last_position_update =
                    tracking[s.id].at_last_position_update

\* C26 witness: a track whose position was updated some seconds ago was
\* offered an older-or-equal snapshot by the last batch and is still tracked
\* with the position of that update.
OlderSnapshotOffered ==
    \E h \in DOMAIN tracking :
        /\ <<h, "stale">> \in last_log
        /\ tracking[h].last_position_update = 2
        /\ tracking[h].at_last_position_update < time
        /\ tracking[h].position.time = tracking[h].at_last_position_update
        /\ tracking[h].position.pos.lat = Fix.lat

\* C24: fusing two providers' snapshots of one hex gives the same result in
\* either order: combine_with yields the same record whichever snapshot is
\* merged into the other, and a batch holding the two leaves the same tracks
\* and the same index whichever comes first.
FusionOrderIndependent ==
    \A a \in UpdatePool(1) : \A b \in UpdatePool(2) :
        /\ CombineWith(a, b) = CombineWith(b, a)
        /\ ApplyBatch(Self, <<a, b>>).tracking = ApplyBatch(Self, <<b, a>>).tracking
        /\ ApplyBatch(Self, <<a, b>>).callsign_map =
                ApplyBatch(Self, <<b, a>>).callsign_map

\* The requests in the pool: waiting, being worked on, or answered with a plan.
InPool ==
    fp_jobs \o fp_working
    \o [i \in 1..Len(SelectSeq(fp_results, LAMBDA r : r.ok)) |->
            [id |-> SelectSeq(fp_results, LAMBDA r : r.ok)[i].id,
             callsign |-> SelectSeq(fp_results, LAMBDA r : r.ok)[i].callsign]]

\* Every job given is in exactly one place: waiting, with one worker, as one
\* result on the channel, or polled; and nothing else is.
PoolConserves ==
    /\ given = Outstanding + returned
    /\ Len(fp_working) <= NumThreads
    /\ \A i \in 1..Len(InPool) :
        /\ \E k \in 1..given : InPool[i] = PoolJobs[k]
        /\ \A j \in 1..Len(InPool) : InPool[i] = InPool[j] => i = j

\* C23: in a running pool every job given is taken by one worker, gives one
\* result on the channel, and that result is eventually polled, once; a poll
\* with no result waiting returns nothing and changes nothing.
PoolDeliversOnce ==
    /\ []PoolConserves
    /\ [][(fp_results = <<>> /\ returned' # returned) => FALSE]_vars
    /\ \A n \in 1..Len(PoolJobs) : (given >= n) ~> (returned >= n)

\* C23 witness: two workers took a job each; the second job has been answered
\* with a plan that waits on the channel while the first is still being worked
\* on, and nothing was polled yet.
LaterJobAnsweredFirst ==
    /\ fp_working # <<>>
    /\ fp_working[1] = PoolJobs[1]
    /\ fp_results # <<>>
    /\ Head(fp_results).ok
    /\ Head(fp_results).id = PoolJobs[2].id
    /\ Head(fp_results).callsign = PoolJobs[2].callsign
    /\ returned = 0

\* The position lines among the lines of a sequence.
PositionLines(lines) == {i \in 1..Len(lines) : lines[i][1] = "@N"}

\* The step is an iteration in which the position cadence fired.
CadenceFired == timer' # timer /\ timer' # NoTimer

Injected(h) ==
    IF h \in DOMAIN injected_tracker THEN injected_tracker[h] ELSE TrackedDataDefault

\* The lines of the sequence that the given builder made.
LinesOf(lines, builder) == {i \in 1..Len(lines) : lines[i][1] = builder}

\* The live track a line of this step is about.
TrackOfLine(line) ==
    CHOOSE h \in DOMAIN tracking' : tracking'[h].ac_data.callsign = line[2]

\* C21: the real flight-plan line of a track is broadcast only when the
\* flight plan is attached and no such line was broadcast before in the
\* track's lifetime, and from then on it counts as broadcast for as long as
\* the track lives; the line is followed at once by a beacon-code line with
\* the current ATC callsign exactly if the squawk is not "0000", and no
\* beacon-code line is written anywhere else.
RealFlightPlanLineOnce ==
    [][/\ (~CadenceFired /\ wrote' # wrote) =>
            LinesOf(wrote', "$FP") \cup LinesOf(wrote', "#PC") = {}
       /\ CadenceFired =>
            /\ \A i \in LinesOf(wrote', "$FP") :
                /\ \E h \in DOMAIN tracking' :
                        tracking'[h].ac_data.callsign = wrote'[i][2]
                /\ LET h == TrackOfLine(wrote'[i])
                       ac_data == tracking'[h].ac_data
                   IN /\ tracking'[h].fp # NoFp
                      /\ wrote'[i] = BuildFlightplanString(tracking'[h].fp, ac_data)
                      /\ ~Injected(h).did_set_fp
                      /\ injected_tracker'[h].did_set_fp
                      /\ \A j \in LinesOf(wrote', "$FP") :
                            wrote'[j][2] = wrote'[i][2] => j = i
                      /\ ac_data.squawk # "0000" =>
                            /\ i < Len(wrote')
                            /\ wrote'[i + 1] =
                                <<"#PC", current_atc_callsign, ac_data.callsign,
                                  ac_data.squawk>>
                      /\ ac_data.squawk = "0000" =>
                            (i < Len(wrote') => wrote'[i + 1][1] # "#PC")
            /\ \A i \in LinesOf(wrote', "#PC") :
                i > 1 /\ wrote'[i - 1][1] = "$FP"
       /\ \A h \in DOMAIN injected_tracker \cap DOMAIN tracking' :
            (injected_tracker[h].did_set_fp /\ h \in DOMAIN injected_tracker')
                => injected_tracker'[h].did_set_fp]_vars

\* C21 witness: a controller has been validated, and the cadence has just
\* broadcast the airliner's flight plan followed by its beacon code, addressed
\* to the controller.
FlightPlanThenBeacon ==
    /\ timer = clock
    /\ current_atc_callsign = JFK_TWR
    /\ \E i \in LinesOf(wrote, "$FP") :
        /\ wrote[i][2] = CS_AAL55
        /\ i < Len(wrote)
        /\ wrote[i + 1] = <<"#PC", JFK_TWR, CS_AAL55, "2000">>

\* The initial flight-plan line is due for the track of hex h at this step's
\* cadence: the track has no flight plan, and no such line was written for it
\* or the last one showed another origin or destination.
InitLineDue(h) ==
    /\ tracking'[h].fp = NoFp
    /\ \/ ~Injected(h).did_init_set
       \/ Injected(h).last_origin # tracking'[h].ac_data.origin
       \/ Injected(h).last_destination # tracking'[h].ac_data.destination

\* C29: at a position cadence the initial flight-plan line of a track is
\* written, once, exactly if it is due, and is then remembered with the origin
\* and destination it showed; its flight rules are "I" exactly for an airline
\* callsign and "V" otherwise; no such line is written outside a cadence.
InitFlightPlanLineWhenDue ==
    [][/\ (~CadenceFired /\ wrote' # wrote) => LinesOf(wrote', "$FP init") = {}
       /\ CadenceFired =>
            \A h \in DOMAIN tracking' :
                LET ac_data == tracking'[h].ac_data
                    emitted == {i \in LinesOf(wrote', "$FP init") :
                                    wrote'[i][2] = ac_data.callsign}
                    before == Injected(h)
                    after == injected_tracker'[h]
                IN /\ emitted # {} <=> InitLineDue(h)
                   /\ Cardinality(emitted) <= 1
                   /\ \A i \in emitted :
                        /\ wrote'[i][3] \in {"I", "V"}
                        /\ wrote'[i][3] = "I" <=> IsAirline(ac_data.callsign)
                        /\ wrote'[i][5] = IcaoOr(ac_data.origin)
                        /\ wrote'[i][6] = IcaoOr(ac_data.destination)
                   /\ IF InitLineDue(h)
                      THEN /\ after.did_init_set
                           /\ after.last_origin = ac_data.origin
                           /\ after.last_destination = ac_data.destination
                      ELSE /\ after.did_init_set = before.did_init_set
                           /\ after.last_origin = before.last_origin
                           /\ after.last_destination = before.last_destination]_vars

\* C29 witness: the cadence has just written the initial flight-plan lines of
\* an airliner, under instrument rules, and of a private aircraft, under
\* visual rules.
BothInitLinesWritten ==
    /\ timer = clock
    /\ \E i, j \in LinesOf(wrote, "$FP init") :
        /\ wrote[i][2] = CS_AAL55 /\ wrote[i][3] = "I"
        /\ wrote[j][2] = CS_N123AB /\ wrote[j][3] = "V"

\* The callsigns a client may ask about.
QueriedCallsigns == {CS_AAL55, CS_N123AB, CS_UAL123}

\* The live tracks with this callsign that have a flight plan.
PlannedTracks(callsign) ==
    {h \in DOMAIN tracking :
        tracking[h].ac_data.callsign = callsign /\ tracking[h].fp # NoFp}

\* C30: whenever a connected client asks for the flight plan of a callsign,
\* the only effect is one reply, to that client, with the flight-plan line of
\* the live track of that callsign, and there is no effect at all unless such
\* a track exists and has a flight plan; and the flight-plan replies an
\* iteration wrote are of that kind, to one client.
FpQueryAnsweredToAsker ==
    /\ \A c \in Range(streams) : \A callsign \in QueriedCallsigns :
        LET r == [callsigns |-> stream_callsign, atc |-> current_atc_callsign,
                  wx_jobs |-> wx_jobs, replied |-> {}]
            after == HandlePacket(r, c, FpQuery(callsign), Self)
        IN /\ [after EXCEPT !.replied = {}] = r
           /\ after.replied =
                {<<c, BuildFlightplanString(tracking[h].fp, tracking[h].ac_data)>> :
                    h \in PlannedTracks(callsign)}
           /\ Cardinality(after.replied) <= 1
    /\ LET replies == {x \in replied : x[2][1] = "$FP"}
       IN /\ Cardinality(replies) <= 1
          /\ \A x \in replies :
                /\ x[1] \in {Clients[i] : i \in 1..connections}
                /\ \E h \in PlannedTracks(x[2][2]) :
                    x[2] = BuildFlightplanString(tracking[h].fp, tracking[h].ac_data)

\* C30 witness: two clients are connected, and the last iteration answered the
\* second one's query with the airliner's flight plan and wrote no reply to
\* the first.
SecondClientAnswered ==
    /\ Len(streams) = 2
    /\ \E x \in replied :
        /\ x[1] = Clients[2]
        /\ x[2][1] = "$FP"
        /\ x[2][2] = CS_AAL55
    /\ \A x \in replied : x[1] # Clients[1]

\* C27: every position line written for a track shows a position computed
\* from a fix a provider reported, never from the default interpolator's
\* (0, 0).  (No aircraft is reported at 0 N 0 E.)
NoLineFromDefault ==
    \A i \in PositionLines(wrote) :
        [lat |-> wrote[i][4], lon |-> wrote[i][5]] # Origin

\* Where the aircraft is dead-reckoned to be at wall-clock time at, from the
\* fix its interpolator was built with.
DeadReckoned(position, at) ==
    LET elasped == Max((at - position.time) - INTERPOLATE_OFFSET, 0)
    IN [lat |-> position.pos.lat + position.speed.lat * elasped,
        lon |-> position.pos.lon + position.speed.lon * elasped]

\* C28: the position line written for a track at a cadence shows the
\* dead-reckoned position if the aircraft is not on the ground and its last
\* position update is less than 20 s old, and otherwise the fix the
\* interpolator was built with, unextrapolated.
DeadReckonedWhileFresh ==
    [][CadenceFired =>
        \A h \in DOMAIN tracking' : \A i \in PositionLines(wrote') :
            wrote'[i][2] = tracking'[h].ac_data.callsign =>
                [lat |-> wrote'[i][4], lon |-> wrote'[i][5]] =
                    IF /\ ~tracking'[h].ac_data.is_on_ground
                       /\ clock - tracking'[h].at_last_position_update < STALE_AFTER
                    THEN DeadReckoned(tracking'[h].position, clock)
                    ELSE tracking'[h].position.pos]_vars

\* What the packet handler starts from in the current state.
Handling ==
    [callsigns |-> stream_callsign, atc |-> current_atc_callsign,
     wx_jobs |-> wx_jobs, replied |-> {}]

\* C31: a METAR request from a connected client adds one job, for the station
\* asked, to the weather pool and does nothing else, and a METAR response
\* does nothing; an iteration polls one weather result, and if it is a METAR
\* broadcasts it in one line, under the current ATC callsign, to every client
\* left in the list; no other METAR line is written.
MetarRequestedAndBroadcast ==
    /\ [](\A c \in Range(streams) :
            /\ HandlePacket(Handling, c, MetarRequest, Self) =
                [Handling EXCEPT !.wx_jobs = Append(wx_jobs, MetarRequest.payload)]
            /\ HandlePacket(Handling, c, MetarResponse, Self) = Handling)
    /\ [][/\ wx_results' # wx_results /\ Len(wx_results') <= Len(wx_results) =>
                /\ wx_results' = Tail(wx_results)
                /\ IF Head(wx_results).ok
                   THEN /\ Cardinality(LinesOf(wrote', "$AR")) = 1
                        /\ \A i \in LinesOf(wrote', "$AR") :
                            /\ wrote'[i] = BuildMetarString(current_atc_callsign',
                                                            Head(wx_results).metar)
                            /\ \A c \in Range(streams') : <<c, wrote'[i]>> \in sent'
                   ELSE LinesOf(wrote', "$AR") = {}
          /\ (wx_results' = wx_results \/ Len(wx_results') > Len(wx_results)) =>
                (wrote' = wrote \/ LinesOf(wrote', "$AR") = {})
          /\ \/ wx_jobs' = wx_jobs
             \/ wx_jobs # <<>> /\ wx_jobs' = Tail(wx_jobs)
             \/ wx_jobs' = Append(wx_jobs, MetarRequest.payload)]_vars

\* C31 witness: a controller has been validated, and the last iteration
\* broadcast a METAR under the controller's callsign to both clients.
MetarBroadcastToBoth ==
    /\ Len(streams) = 2
    /\ current_atc_callsign = JFK_TWR
    /\ \E i \in LinesOf(wrote, "$AR") :
        /\ wrote[i][2] = JFK_TWR
        /\ \A c \in Range(streams) : <<c, wrote[i]>> \in sent

\* The tracker after step_flightplan in the current state.
AfterStepFlightplan == StepFlightplan(Self)

\* C32: a tracker tick takes at most one flight-plan result.  Taking an Ok
\* result whose hex has a track sets that track's flight plan and changes
\* nothing else; taking an Err result, or an Ok result whose track is gone,
\* changes nothing but the channel; and a track's flight plan never changes
\* in a step that takes no result for its hex.
OneResultPerTick ==
    /\ [](IF fp_results = <<>>
          THEN AfterStepFlightplan = Self
          ELSE LET result == Head(fp_results)
                   polled == [Self EXCEPT !.fp_results = Tail(fp_results)]
               IN IF result.ok /\ result.id \in DOMAIN tracking
                  THEN AfterStepFlightplan =
                        [polled EXCEPT !.tracking =
                            [h \in DOMAIN tracking |->
                                IF h = result.id
                                THEN [tracking[h] EXCEPT !.fp = result.fp]
                                ELSE tracking[h]]]
                  ELSE AfterStepFlightplan = polled)
    /\ [][/\ Len(fp_results') >= Len(fp_results) - 1
          /\ \A h \in DOMAIN tracking \cap DOMAIN tracking' :
                tracking'[h].fp # tracking[h].fp =>
                    /\ fp_results # <<>>
                    /\ fp_results' = Tail(fp_results)
                    /\ Head(fp_results).ok
                    /\ Head(fp_results).id = h
                    /\ tracking'[h].fp = Head(fp_results).fp]_vars

\* C32 witness: the result that is next in the channel is a flight plan for a
\* hex whose track is gone.
ResultForEvictedTrackWaits ==
    /\ fp_results # <<>>
    /\ Head(fp_results).ok
    /\ Head(fp_results).id \notin DOMAIN tracking

\* C33: over a whole run a flight plan is requested at most once for a
\* callsign: a step submits no request for a callsign one was submitted for
\* before, also when the track was evicted and created again in between.
OneRequestPerCallsign ==
    [][\A i \in (Len(fp_jobs) + 1)..Len(fp_jobs') :
        /\ fp_jobs'[i].callsign \notin requested
        /\ \A j \in (Len(fp_jobs) + 1)..Len(fp_jobs') :
            fp_jobs'[j].callsign = fp_jobs'[i].callsign => j = i]_vars

\* C34: the pbh word of a position line is the whole part of
\* heading * 1024 / 360, shifted left by two, and has no bit outside bits
\* 11..2 (pitch and bank are zero), for every whole heading from 0 to 360.
PbhHeadingOnly ==
    [][CadenceFired =>
        \A h \in DOMAIN tracking' : \A i \in PositionLines(wrote') :
            wrote'[i][2] = tracking'[h].ac_data.callsign =>
                LET pbh == wrote'[i][8]
                    heading == tracking'[h].ac_data.heading
                IN /\ pbh = ((heading * 1024) \div 360) * 4
                   /\ pbh % 4 = 0
                   /\ pbh \div 4096 = 0]_vars

\* C35: the flight-plan pool and the weather pool that serve the next
\* session are the ones that served the session that ends: the jobs queued,
\* the jobs the workers are on and the results waiting to be polled are the
\* same after the session's end as before it.
PoolsOutliveSession ==
    [][(did_init /\ ~did_init') =>
        /\ fp_jobs' = fp_jobs
        /\ fp_working' = fp_working
        /\ fp_results' = fp_results
        /\ wx_jobs' = wx_jobs
        /\ wx_results' = wx_results]_vars

\* C36: buffering starts only in the step that accepts a session's first
\* client and, once stopped, stays stopped for the rest of the session; and
\* while the tracker is buffering it has no track and no callsign indexed.
BufferingOncePerSession ==
    /\ [](is_buffering => tracking = EmptyMap /\ callsign_map = EmptyMap)
    /\ [][/\ (~is_buffering /\ is_buffering') => (~did_init /\ did_init')
          /\ (did_init /\ did_init' /\ ~is_buffering) => ~is_buffering']_vars

\* C36 witness: a second session is buffering, with a batch waiting in the
\* buffer, after the first session's client was dropped.
SecondSessionBuffers ==
    /\ is_buffering
    /\ did_init
    /\ dropped # {}
    /\ connections = 2
    /\ \E i \in 1..Len(buffer) : buffer[i] # <<>>

\* C37: the injected-state map has an entry for exactly the live tracks, and
\* a track that comes to life had no entry before: after the step its flags
\* are the default ones, or, at a position cadence, those of a first initial
\* flight-plan line (or, with a flight plan attached in the same tick, of a
\* first real flight-plan line), which is among the lines written.
InjectedIsLive ==
    /\ [](DOMAIN injected_tracker = DOMAIN tracking)
    /\ [][\A h \in DOMAIN tracking' \ DOMAIN tracking :
            /\ h \notin DOMAIN injected_tracker
            /\ IF CadenceFired
               THEN /\ injected_tracker'[h].did_init_set = (tracking'[h].fp = NoFp)
                    /\ injected_tracker'[h].did_set_fp = (tracking'[h].fp # NoFp)
                    /\ \E i \in LinesOf(wrote', IF tracking'[h].fp = NoFp
                                                 THEN "$FP init" ELSE "$FP") :
                         wrote'[i][2] = tracking'[h].ac_data.callsign
               ELSE injected_tracker'[h] = TrackedDataDefault]_vars

\* C37 witness: a track whose flight plan was requested in an earlier life
\* has been evicted and created again, and a position cadence has given it
\* flags again.
RecreatedTrackFlagged ==
    \E h \in DOMAIN tracking :
        /\ tracking[h].ac_data.callsign \in requested
        /\ ~tracking[h].fp_did_try_update
        /\ h \in DOMAIN injected_tracker
        /\ injected_tracker[h] # TrackedDataDefault
        /\ timer = clock

\* C38: at a position cadence no track gets both an initial flight-plan line
\* and a real flight-plan line, an initial flight-plan line is written only
\* for a track without a flight plan, and a live track's flight plan, once
\* attached, stays attached.
InitLineOnlyBeforeFlightPlan ==
    /\ [][CadenceFired =>
            \A i \in LinesOf(wrote', "$FP init") :
                /\ \A j \in LinesOf(wrote', "$FP") : wrote'[j][2] # wrote'[i][2]
                /\ \A h \in DOMAIN tracking' :
                     tracking'[h].ac_data.callsign = wrote'[i][2] =>
                        tracking'[h].fp = NoFp]_vars
    /\ [][\A h \in DOMAIN tracking \cap DOMAIN tracking' :
            tracking[h].fp # NoFp => tracking'[h].fp # NoFp]_vars

\* C38 witness: a cadence has written the real flight-plan line, and no
\* initial one, for a track that had its initial flight-plan line before.
RealLineAfterInitLine ==
    /\ timer = clock
    /\ \E h \in DOMAIN tracking :
        /\ tracking[h].fp # NoFp
        /\ Injected(h).did_init_set
        /\ Injected(h).did_set_fp
        /\ \E i \in LinesOf(wrote, "$FP") :
             wrote[i][2] = tracking[h].ac_data.callsign
        /\ LinesOf(wrote, "$FP init") = {}

\* C39: whatever the providers answer, if no snapshot of the batch passes the
\* callsign and altitude filters (all providers failed, or reported nothing,
\* or only blank callsigns and altitudes out of band), update_aircraft leaves
\* no track and no callsign index entry.
EmptyBatchEvictsAll ==
    \A r \in EvictionAnswers :
        Processed(AllData(r)) = {} =>
            LET after == UpdateAircraft(Self, r)
            IN /\ after.tracking = EmptyMap
               /\ after.callsign_map = EmptyMap

\* C39 witness: two tracks are live, and both the poll in which every
\* provider fails and a poll that reports one of them out of band, and nothing
\* else, leave none.
FailedPollEvictsBoth ==
    /\ Cardinality(DOMAIN tracking) = 2
    /\ Cardinality(DOMAIN callsign_map) = 2
    /\ ~is_buffering
    /\ \E r \in EvictionAnswers :
        /\ \A p \in 1..NumProviders : ~r[p].ok
        /\ UpdateAircraft(Self, r).tracking = EmptyMap
    /\ \E r \in EvictionAnswers :
        /\ AllData(r) # <<>>
        /\ Processed(AllData(r)) = {}
        /\ AllData(r)[1].id \in DOMAIN tracking
        /\ UpdateAircraft(Self, r).tracking = EmptyMap
        /\ UpdateAircraft(Self, r).callsign_map = EmptyMap

\* C40: in a pool with one worker the results wait in the order in which
\* their jobs were given: the i-th result still to be polled is a result of
\* the i-th job after those whose results were polled, and the job in the
\* worker's hands is the next one after those.
SingleWorkerKeepsOrder ==
    /\ \A i \in 1..Len(fp_results) :
        fp_results[i] \in FlightPlanResults(PoolJobs[returned + i])
    /\ \A i \in 1..Len(fp_working) :
        fp_working[i] = PoolJobs[returned + Len(fp_results) + i]
    /\ \A i \in 1..Len(fp_jobs) :
        fp_jobs[i] = PoolJobs[returned + Len(fp_results) + Len(fp_working) + i]

\* C40 witness: the results of two different jobs wait, the earlier job's
\* first, while the worker is busy with a third job.
TwoResultsInOrder ==
    /\ Len(fp_results) = 2
    /\ fp_results[1].ok
    /\ fp_results[2].ok
    /\ fp_results[1].id = PoolJobs[returned + 1].id
    /\ fp_results[2].id = PoolJobs[returned + 2].id
    /\ fp_results[1].id # fp_results[2].id
    /\ Len(fp_working) = 1

====
